---- MODULE Spec2Model ----
(***************************************************************************)
(* Petstore MCP server: the tool handlers of petstore-mcp-server.py, the   *)
(* HTTP helper make_api_request they share, and the tool registry returned *)
(* by handle_list_tools.                                                   *)
(*                                                                         *)
(* Texts (Python str, response bodies) are sequences of atoms; an atom is  *)
(* a TLA+ string standing for one character or one unbroken run of         *)
(* ordinary characters.  JSON punctuation, the quote, the backslash, the   *)
(* blank and newline that JSON may skip, decimal digits and the "/" of a   *)
(* URL path are always atoms of their own, so that json.loads, json.dumps  *)
(* and f-string formatting are modelled by what they do to the text.       *)
(***************************************************************************)
EXTENDS Integers, Sequences, FiniteSets, TLC

(***************************************************************************)
(* Python / JSON values.  Every value has the same record shape so that    *)
(* any two values can be compared: t is the type tag, s the text of a      *)
(* scalar, keys/kids the members of a dict or the items of a list.         *)
(***************************************************************************)
\* Python None, which is also what JSON null parses to and is dumped from
NoneV == [t |-> "none", s |-> <<>>, keys |-> <<>>, kids |-> <<>>]

BoolV(b) == [t |-> "bool", s |-> <<b>>, keys |-> <<>>, kids |-> <<>>]

NumV(digits) == [t |-> "num", s |-> digits, keys |-> <<>>, kids |-> <<>>]

StrV(text) == [t |-> "str", s |-> text, keys |-> <<>>, kids |-> <<>>]

ArrV(items) == [t |-> "arr", s |-> <<>>, keys |-> <<>>, kids |-> items]

ObjV(ks, vs) == [t |-> "obj", s |-> <<>>, keys |-> ks, kids |-> vs]

EmptyDict == ObjV(<<>>, <<>>)

\* dict.get(key): the value stored under key, None when the key is absent
Get(d, key) ==
  IF \E i \in 1..Len(d.keys) : d.keys[i] = key
  THEN d.kids[CHOOSE i \in 1..Len(d.keys) : d.keys[i] = key]
  ELSE NoneV

\* key in dict
HasKey(d, key) == \E i \in 1..Len(d.keys) : d.keys[i] = key

\* dict[key] = value: replaces in place, or appends a new key
DictSet(d, key, value) ==
  IF HasKey(d, key)
  THEN ObjV(d.keys, [i \in 1..Len(d.kids) |->
                       IF d.keys[i] = key THEN value ELSE d.kids[i]])
  ELSE ObjV(Append(d.keys, key), Append(d.kids, value))

\* Python truthiness: None, 0, "", [], {} and False are falsy
Truthy(v) ==
  CASE v.t = "none" -> FALSE
    [] v.t = "bool" -> v.s = <<"true">>
    [] v.t = "num"  -> \E i \in 1..Len(v.s) : v.s[i] # "0"
    [] v.t = "str"  -> v.s # <<>>
    [] v.t = "arr"  -> v.kids # <<>>
    [] v.t = "obj"  -> v.keys # <<>>

(***************************************************************************)
(* Atoms with a lexical role                                               *)
(***************************************************************************)
Quote == "\""

Bslash == "\\"

Newline == "\n"

Space == " "

WhiteSpace == {Space, Newline}

Digits == <<"0", "1", "2", "3", "4", "5", "6", "7", "8", "9">>

IsDigit(a) == \E i \in 1..10 : Digits[i] = a

RECURSIVE IntText(_)
\* str(n) for a natural number: its decimal digits
IntText(n) ==
  IF n < 10 THEN <<Digits[n + 1]>>
  ELSE IntText(n \div 10) \o <<Digits[(n % 10) + 1]>>

(***************************************************************************)
(* json.loads, as a recursive descent over the atoms.  A parse step gives  *)
(* [ok, v, rest]: whether a value was read, the value, the unread text.    *)
(***************************************************************************)
ParseFail == [ok |-> FALSE, v |-> NoneV, rest |-> <<>>]

ParseOk(value, rest) == [ok |-> TRUE, v |-> value, rest |-> rest]

RECURSIVE SkipWS(_)
SkipWS(text) ==
  IF text # <<>> /\ Head(text) \in WhiteSpace THEN SkipWS(Tail(text)) ELSE text

RECURSIVE ScanString(_, _)
\* text follows an opening quote; acc is the content read so far
ScanString(text, acc) ==
  IF text = <<>> THEN ParseFail
  ELSE IF Head(text) = Quote THEN ParseOk(StrV(acc), Tail(text))
  ELSE IF Head(text) = Newline THEN ParseFail
  ELSE IF Head(text) = Bslash THEN
    IF Len(text) < 2 THEN ParseFail
    ELSE IF text[2] = Quote THEN ScanString(Tail(Tail(text)), Append(acc, Quote))
    ELSE IF text[2] = Bslash THEN ScanString(Tail(Tail(text)), Append(acc, Bslash))
    ELSE IF text[2] = "n" THEN ScanString(Tail(Tail(text)), Append(acc, Newline))
    ELSE ParseFail
  ELSE ScanString(Tail(text), Append(acc, Head(text)))

RECURSIVE ScanNumber(_, _)
ScanNumber(text, acc) ==
  IF text # <<>> /\ IsDigit(Head(text))
  THEN ScanNumber(Tail(text), Append(acc, Head(text)))
  ELSE IF Len(acc) > 1 /\ acc[1] = "0" THEN ParseFail
  ELSE ParseOk(NumV(acc), text)

RECURSIVE ParseValue(_)
RECURSIVE ParseMembers(_, _)
RECURSIVE ParseElements(_, _)

\* text follows "{" or a "," inside an object; d holds the members so far
ParseMembers(text, d) ==
  LET t1 == SkipWS(text) IN
  IF t1 = <<>> \/ Head(t1) # Quote THEN ParseFail
  ELSE LET k == ScanString(Tail(t1), <<>>) IN
    IF ~k.ok THEN ParseFail
    ELSE LET t2 == SkipWS(k.rest) IN
      IF t2 = <<>> \/ Head(t2) # ":" THEN ParseFail
      ELSE LET m == ParseValue(Tail(t2)) IN
        IF ~m.ok THEN ParseFail
        ELSE LET t3 == SkipWS(m.rest)
                 d2 == DictSet(d, k.v.s, m.v) IN
          IF t3 = <<>> THEN ParseFail
          ELSE IF Head(t3) = "}" THEN ParseOk(d2, Tail(t3))
          ELSE IF Head(t3) = "," THEN ParseMembers(Tail(t3), d2)
          ELSE ParseFail

\* text follows "[" or a "," inside an array; items holds the items so far
ParseElements(text, items) ==
  LET e == ParseValue(text) IN
  IF ~e.ok THEN ParseFail
  ELSE LET t1 == SkipWS(e.rest)
           items2 == Append(items, e.v) IN
    IF t1 = <<>> THEN ParseFail
    ELSE IF Head(t1) = "]" THEN ParseOk(ArrV(items2), Tail(t1))
    ELSE IF Head(t1) = "," THEN ParseElements(Tail(t1), items2)
    ELSE ParseFail

ParseValue(text) ==
  LET t1 == SkipWS(text) IN
  IF t1 = <<>> THEN ParseFail
  ELSE LET h == Head(t1)
           r == Tail(t1) IN
    IF h = "{" THEN
      (IF SkipWS(r) # <<>> /\ Head(SkipWS(r)) = "}"
       THEN ParseOk(EmptyDict, Tail(SkipWS(r)))
       ELSE ParseMembers(r, EmptyDict))
    ELSE IF h = "[" THEN
      (IF SkipWS(r) # <<>> /\ Head(SkipWS(r)) = "]"
       THEN ParseOk(ArrV(<<>>), Tail(SkipWS(r)))
       ELSE ParseElements(r, <<>>))
    ELSE IF h = Quote THEN ScanString(r, <<>>)
    ELSE IF IsDigit(h) THEN ScanNumber(t1, <<>>)
    ELSE IF h = "true" \/ h = "false" THEN ParseOk(BoolV(h), r)
    ELSE IF h = "null" THEN ParseOk(NoneV, r)
    ELSE ParseFail

\* json.loads(text): ok is FALSE where Python raises JSONDecodeError
Loads(text) ==
  LET p == ParseValue(text) IN
  IF p.ok /\ SkipWS(p.rest) = <<>> THEN p ELSE ParseFail

(***************************************************************************)
(* json.dumps(value, indent=2)                                             *)
(***************************************************************************)
RECURSIVE Escape(_)
Escape(text) ==
  IF text = <<>> THEN <<>>
  ELSE (CASE Head(text) = Quote   -> <<Bslash, Quote>>
          [] Head(text) = Bslash  -> <<Bslash, Bslash>>
          [] Head(text) = Newline -> <<Bslash, "n">>
          [] OTHER -> <<Head(text)>>) \o Escape(Tail(text))

RECURSIVE Indent(_)
Indent(level) == IF level = 0 THEN <<>> ELSE <<Space, Space>> \o Indent(level - 1)

RECURSIVE Dumps(_, _)
RECURSIVE DumpItems(_, _, _, _)

\* the members (or items) from index i on, one per line at the given level
DumpItems(v, i, level, isObj) ==
  IF i > Len(v.kids) THEN <<>>
  ELSE Indent(level)
       \o (IF isObj THEN <<Quote>> \o Escape(v.keys[i]) \o <<Quote, ":", Space>>
                    ELSE <<>>)
       \o Dumps(v.kids[i], level)
       \o (IF i < Len(v.kids) THEN <<",">> ELSE <<>>)
       \o <<Newline>>
       \o DumpItems(v, i + 1, level, isObj)

Dumps(v, level) ==
  CASE v.t = "obj" ->
         IF v.kids = <<>> THEN <<"{", "}">>
         ELSE <<"{", Newline>> \o DumpItems(v, 1, level + 1, TRUE)
              \o Indent(level) \o <<"}">>
    [] v.t = "arr" ->
         IF v.kids = <<>> THEN <<"[", "]">>
         ELSE <<"[", Newline>> \o DumpItems(v, 1, level + 1, FALSE)
              \o Indent(level) \o <<"]">>
    [] v.t = "str" -> <<Quote>> \o Escape(v.s) \o <<Quote>>
    [] v.t = "num" -> v.s
    [] v.t = "bool" -> v.s
    [] OTHER -> <<"null">>


\* a text of one atom
T(a) == <<a>>

RECURSIVE PyRepr(_)
RECURSIVE PyReprItems(_, _, _)

PyReprItems(v, i, isObj) ==
  IF i > Len(v.kids) THEN <<>>
  ELSE (IF isObj THEN <<"'">> \o v.keys[i] \o <<"'", ":", Space>> ELSE <<>>)
       \o PyRepr(v.kids[i])
       \o (IF i < Len(v.kids) THEN <<",", Space>> ELSE <<>>)
       \o PyReprItems(v, i + 1, isObj)

\* repr(value), as str() and f-strings use it for values inside containers
PyRepr(v) ==
  CASE v.t = "none" -> <<"None">>
    [] v.t = "bool" -> IF v.s = <<"true">> THEN <<"True">> ELSE <<"False">>
    [] v.t = "num"  -> v.s
    [] v.t = "str"  -> <<"'">> \o v.s \o <<"'">>
    [] v.t = "arr"  -> <<"[">> \o PyReprItems(v, 1, FALSE) \o <<"]">>
    [] v.t = "obj"  -> <<"{">> \o PyReprItems(v, 1, TRUE) \o <<"}">>

\* f"{value}": a str is inserted as it is, anything else through repr
Format(v) == IF v.t = "str" THEN v.s ELSE PyRepr(v)

(***************************************************************************)
(* The tool registry: the Tool definitions handle_list_tools returns, with *)
(* each input schema's top-level property names and its "required" list.   *)
(***************************************************************************)
Tool(name, properties, required) ==
  [name |-> name, properties |-> properties, required |-> required]

\* variant: update_pet_with_form declares the field "name" twice
handle_list_tools_twice ==
  << Tool("add_pet", <<"pet">>, <<"pet">>),
     Tool("update_pet", <<"pet">>, <<"pet">>),
     Tool("get_pet_by_id", <<"pet_id">>, <<"pet_id">>),
     Tool("find_pets_by_status", <<"status">>, <<>>),
     Tool("find_pets_by_tags", <<"tags">>, <<>>),
     Tool("update_pet_with_form", <<"pet_id", "name", "name">>, <<"pet_id">>),
     Tool("delete_pet", <<"pet_id", "api_key">>, <<"pet_id">>),
     Tool("upload_pet_image", <<"pet_id", "additional_metadata">>, <<"pet_id">>),
     Tool("get_inventory", <<>>, <<>>),
     Tool("place_order", <<"order">>, <<"order">>),
     Tool("get_order_by_id", <<"order_id">>, <<"order_id">>),
     Tool("delete_order", <<"order_id">>, <<"order_id">>),
     Tool("create_user", <<"user">>, <<"user">>),
     Tool("create_users_with_list", <<"users">>, <<"users">>),
     Tool("login_user", <<"username", "password">>, <<>>),
     Tool("logout_user", <<>>, <<>>),
     Tool("get_user_by_name", <<"username">>, <<"username">>),
     Tool("update_user", <<"username", "user">>, <<"username", "user">>),
     Tool("delete_user", <<"username">>, <<"username">>) >>

handle_list_tools ==
  << Tool("add_pet", <<"pet">>, <<"pet">>),
     Tool("update_pet", <<"pet">>, <<"pet">>),
     Tool("get_pet_by_id", <<"pet_id">>, <<"pet_id">>),
     Tool("find_pets_by_status", <<"status">>, <<>>),
     Tool("find_pets_by_tags", <<"tags">>, <<>>),
     Tool("update_pet_with_form", <<"pet_id", "name", "status">>, <<"pet_id">>),
     Tool("delete_pet", <<"pet_id", "api_key">>, <<"pet_id">>),
     Tool("upload_pet_image", <<"pet_id", "additional_metadata">>, <<"pet_id">>),
     Tool("get_inventory", <<>>, <<>>),
     Tool("place_order", <<"order">>, <<"order">>),
     Tool("get_order_by_id", <<"order_id">>, <<"order_id">>),
     Tool("delete_order", <<"order_id">>, <<"order_id">>),
     Tool("create_user", <<"user">>, <<"user">>),
     Tool("create_users_with_list", <<"users">>, <<"users">>),
     Tool("login_user", <<"username", "password">>, <<>>),
     Tool("logout_user", <<>>, <<>>),
     Tool("get_user_by_name", <<"username">>, <<"username">>),
     Tool("update_user", <<"username", "user">>, <<"username", "user">>),
     Tool("delete_user", <<"username">>, <<"username">>) >>

ToolNames == {handle_list_tools[i].name : i \in 1..Len(handle_list_tools)}

ToolDef(name) ==
  handle_list_tools[CHOOSE i \in 1..Len(handle_list_tools) :
                      handle_list_tools[i].name = name]

\* the "default" member of a property of a tool's inputSchema; no value when
\* the schema declares none
schema_default(name, field) ==
  IF name = "find_pets_by_status" /\ field = "status"
  THEN StrV(T("available"))
  ELSE [t |-> "absent", s |-> <<>>, keys |-> <<>>, kids |-> <<>>]

\* the enum of "status" in the pet schema of add_pet and update_pet
pet_status_enum == {T("available"), T("pending"), T("sold")}

\* client_config.TOOL_PATTERNS
TOOL_PATTERNS ==
  [pet_discovery |-> <<"find_pets_by_status", "find_pets_by_tags", "get_pet_by_id">>,
   pet_lifecycle |-> <<"add_pet", "update_pet", "update_pet_with_form", "upload_pet_image", "delete_pet">>,
   store_operations |-> <<"get_inventory", "place_order", "get_order_by_id", "delete_order">>,
   user_lifecycle |-> <<"create_user", "login_user", "get_user_by_name", "update_user", "logout_user", "delete_user">>]

Range(seq) == {seq[i] : i \in 1..Len(seq)}

(***************************************************************************)
(* The tool handlers.  A handler runs until it returns a text or awaits    *)
(* make_api_request; the step it yields carries either the returned text   *)
(* or the arguments of make_api_request together with the two prefixes the *)
(* handler puts before the outcome of the request.                         *)
(***************************************************************************)
Return(text) ==
  [kind |-> "return", text |-> text, method |-> "", endpoint |-> <<>>,
   params |-> NoneV, json_data |-> NoneV, headers |-> NoneV,
   okText |-> <<>>, errText |-> <<>>]

Request(method, endpoint, params, json_data, headers, okText, errText) ==
  [kind |-> "request", text |-> <<>>, method |-> method, endpoint |-> endpoint,
   params |-> params, json_data |-> json_data, headers |-> headers,
   okText |-> okText, errText |-> errText]

\* params = {}; if arguments.get(key): params[name] = arguments[key]
SetIfGiven(d, name, arguments, key) ==
  IF Truthy(Get(arguments, T(key)))
  THEN DictSet(d, T(name), Get(arguments, T(key)))
  ELSE d

add_pet(arguments) ==
  LET pet_data == Get(arguments, T("pet")) IN
  IF ~Truthy(pet_data) THEN Return(T("Error: Pet data is required"))
  ELSE Request("POST", <<"/", "pet">>, NoneV, pet_data, NoneV,
               T("Pet added successfully: "), T("Error adding pet: "))

update_pet(arguments) ==
  LET pet_data == Get(arguments, T("pet")) IN
  IF ~Truthy(pet_data) THEN Return(T("Error: Pet data is required"))
  ELSE Request("PUT", <<"/", "pet">>, NoneV, pet_data, NoneV,
               T("Pet updated successfully: "), T("Error updating pet: "))

get_pet_by_id(arguments) ==
  LET pet_id == Get(arguments, T("pet_id")) IN
  IF ~Truthy(pet_id) THEN Return(T("Error: Pet ID is required"))
  ELSE Request("GET", <<"/", "pet", "/">> \o Format(pet_id), NoneV, NoneV, NoneV,
               T("Pet details: "), T("Error getting pet: "))

find_pets_by_status(arguments) ==
  LET status == IF HasKey(arguments, T("status"))
                THEN Get(arguments, T("status")) ELSE StrV(T("available"))
      params == ObjV(<<T("status")>>, <<status>>) IN
  Request("GET", <<"/", "pet", "/", "findByStatus">>, params, NoneV, NoneV,
          T("Pets found: "), T("Error finding pets by status: "))

\* variant: the handler insists on the tags
find_pets_by_tags_required(arguments) ==
  LET given == Get(arguments, T("tags"))
      tags == IF given.t = "str" THEN ArrV(<<given>>) ELSE given
      params == ObjV(<<T("tags")>>, <<tags>>) IN
  IF ~Truthy(given) THEN Return(T("Error: Tags are required"))
  ELSE Request("GET", <<"/", "pet", "/", "findByTags">>, params, NoneV, NoneV,
               T("Pets found: "), T("Error finding pets by tags: "))

find_pets_by_tags(arguments) ==
  LET given == IF HasKey(arguments, T("tags"))
               THEN Get(arguments, T("tags")) ELSE ArrV(<<>>)
      tags == IF given.t = "str" THEN ArrV(<<given>>) ELSE given
      params == ObjV(<<T("tags")>>, <<tags>>) IN
  Request("GET", <<"/", "pet", "/", "findByTags">>, params, NoneV, NoneV,
          T("Pets found: "), T("Error finding pets by tags: "))

update_pet_with_form(arguments) ==
  LET pet_id == Get(arguments, T("pet_id"))
      params == SetIfGiven(SetIfGiven(EmptyDict, "name", arguments, "name"),
                           "status", arguments, "status") IN
  IF ~Truthy(pet_id) THEN Return(T("Error: Pet ID is required"))
  ELSE Request("POST", <<"/", "pet", "/">> \o Format(pet_id), params, NoneV, NoneV,
               T("Pet updated: "), T("Error updating pet: "))

delete_pet(arguments) ==
  LET pet_id == Get(arguments, T("pet_id"))
      headers == SetIfGiven(EmptyDict, "api_key", arguments, "api_key") IN
  IF ~Truthy(pet_id) THEN Return(T("Error: Pet ID is required"))
  ELSE Request("DELETE", <<"/", "pet", "/">> \o Format(pet_id), NoneV, NoneV, headers,
               T("Pet deleted successfully: "), T("Error deleting pet: "))

upload_pet_image(arguments) ==
  LET pet_id == Get(arguments, T("pet_id"))
      params == SetIfGiven(EmptyDict, "additionalMetadata",
                           arguments, "additional_metadata") IN
  IF ~Truthy(pet_id) THEN Return(T("Error: Pet ID is required"))
  ELSE Request("POST", <<"/", "pet", "/">> \o Format(pet_id) \o <<"/", "uploadImage">>,
               params, NoneV, NoneV,
               T("Image upload response: "), T("Error uploading image: "))

get_inventory(arguments) ==
  Request("GET", <<"/", "store", "/", "inventory">>, NoneV, NoneV, NoneV,
          T("Inventory: "), T("Error getting inventory: "))

place_order(arguments) ==
  LET order_data == Get(arguments, T("order")) IN
  IF ~Truthy(order_data) THEN Return(T("Error: Order data is required"))
  ELSE Request("POST", <<"/", "store", "/", "order">>, NoneV, order_data, NoneV,
               T("Order placed: "), T("Error placing order: "))

get_order_by_id(arguments) ==
  LET order_id == Get(arguments, T("order_id")) IN
  IF ~Truthy(order_id) THEN Return(T("Error: Order ID is required"))
  ELSE Request("GET", <<"/", "store", "/", "order", "/">> \o Format(order_id),
               NoneV, NoneV, NoneV,
               T("Order details: "), T("Error getting order: "))

delete_order(arguments) ==
  LET order_id == Get(arguments, T("order_id")) IN
  IF ~Truthy(order_id) THEN Return(T("Error: Order ID is required"))
  ELSE Request("DELETE", <<"/", "store", "/", "order", "/">> \o Format(order_id),
               NoneV, NoneV, NoneV,
               T("Order deleted: "), T("Error deleting order: "))

create_user(arguments) ==
  LET user_data == Get(arguments, T("user")) IN
  IF ~Truthy(user_data) THEN Return(T("Error: User data is required"))
  ELSE Request("POST", <<"/", "user">>, NoneV, user_data, NoneV,
               T("User created: "), T("Error creating user: "))

create_users_with_list(arguments) ==
  LET users_data == Get(arguments, T("users")) IN
  IF ~Truthy(users_data) THEN Return(T("Error: Users data is required"))
  ELSE Request("POST", <<"/", "user", "/", "createWithList">>, NoneV, users_data, NoneV,
               T("Users created: "), T("Error creating users: "))

\* variant: the whole argument mapping is given as the query parameters
login_user_all_arguments(arguments) ==
  Request("GET", <<"/", "user", "/", "login">>, arguments, NoneV, NoneV,
          T("Login successful: "), T("Error logging in: "))

login_user(arguments) ==
  LET params == SetIfGiven(SetIfGiven(EmptyDict, "username", arguments, "username"),
                           "password", arguments, "password") IN
  Request("GET", <<"/", "user", "/", "login">>, params, NoneV, NoneV,
          T("Login successful: "), T("Error logging in: "))

\* variant: the endpoint of login_user is used
logout_user_login(arguments) ==
  Request("GET", <<"/", "user", "/", "login">>, NoneV, NoneV, NoneV,
          T("Logout successful: "), T("Error logging out: "))

logout_user(arguments) ==
  Request("GET", <<"/", "user", "/", "logout">>, NoneV, NoneV, NoneV,
          T("Logout successful: "), T("Error logging out: "))

get_user_by_name(arguments) ==
  LET username == Get(arguments, T("username")) IN
  IF ~Truthy(username) THEN Return(T("Error: Username is required"))
  ELSE Request("GET", <<"/", "user", "/">> \o Format(username), NoneV, NoneV, NoneV,
               T("User details: "), T("Error getting user: "))

\* variant: only the username is validated
update_user_username_only(arguments) ==
  LET username == Get(arguments, T("username"))
      user_data == Get(arguments, T("user")) IN
  IF ~Truthy(username) THEN Return(T("Error: Username is required"))
  ELSE Request("PUT", <<"/", "user", "/">> \o Format(username), NoneV, user_data, NoneV,
               T("User updated: "), T("Error updating user: "))

update_user(arguments) ==
  LET username == Get(arguments, T("username"))
      user_data == Get(arguments, T("user")) IN
  IF ~Truthy(username) THEN Return(T("Error: Username is required"))
  ELSE IF ~Truthy(user_data) THEN Return(T("Error: User data is required"))
  ELSE Request("PUT", <<"/", "user", "/">> \o Format(username), NoneV, user_data, NoneV,
               T("User updated: "), T("Error updating user: "))

delete_user(arguments) ==
  LET username == Get(arguments, T("username")) IN
  IF ~Truthy(username) THEN Return(T("Error: Username is required"))
  ELSE Request("DELETE", <<"/", "user", "/">> \o Format(username), NoneV, NoneV, NoneV,
               T("User deleted: "), T("Error deleting user: "))

\* the functions decorated with @server.call_tool(), in the order of the file
Handlers ==
  << "add_pet", "update_pet", "get_pet_by_id", "find_pets_by_status",
     "find_pets_by_tags", "update_pet_with_form", "delete_pet",
     "upload_pet_image", "get_inventory", "place_order", "get_order_by_id",
     "delete_order", "create_user", "create_users_with_list", "login_user",
     "logout_user", "get_user_by_name", "update_user", "delete_user" >>

\* calling the handler function h with one argument mapping
RunHandler(h, arguments) ==
  CASE h = "add_pet" -> add_pet(arguments)
    [] h = "update_pet" -> update_pet(arguments)
    [] h = "get_pet_by_id" -> get_pet_by_id(arguments)
    [] h = "find_pets_by_status" -> find_pets_by_status(arguments)
    [] h = "find_pets_by_tags" -> find_pets_by_tags(arguments)
    [] h = "update_pet_with_form" -> update_pet_with_form(arguments)
    [] h = "delete_pet" -> delete_pet(arguments)
    [] h = "upload_pet_image" -> upload_pet_image(arguments)
    [] h = "get_inventory" -> get_inventory(arguments)
    [] h = "place_order" -> place_order(arguments)
    [] h = "get_order_by_id" -> get_order_by_id(arguments)
    [] h = "delete_order" -> delete_order(arguments)
    [] h = "create_user" -> create_user(arguments)
    [] h = "create_users_with_list" -> create_users_with_list(arguments)
    [] h = "login_user" -> login_user(arguments)
    [] h = "logout_user" -> logout_user(arguments)
    [] h = "get_user_by_name" -> get_user_by_name(arguments)
    [] h = "update_user" -> update_user(arguments)
    [] h = "delete_user" -> delete_user(arguments)

(***************************************************************************)
(* make_api_request                                                        *)
(***************************************************************************)
BASE_URL == <<"https:", "/", "/", "petstore3.swagger.io", "/", "api", "/", "v3">>

\* variant: the request is issued a second time
make_api_request_send_again(method, endpoint, params, json_data, headers) ==
  LET request == [method |-> method, url |-> BASE_URL \o endpoint,
                  params |-> params, json |-> json_data, headers |-> headers]
  IN <<request, request>>

\* the calls of http_client.request that one call of make_api_request makes
make_api_request_send(method, endpoint, params, json_data, headers) ==
  << [method |-> method, url |-> BASE_URL \o endpoint, params |-> params,
      json |-> json_data, headers |-> headers] >>

\* raise PetstoreAPIError(status_code, message)
PetstoreAPIError(status_code, message, parsed) ==
  [raised |-> TRUE, status_code |-> status_code, message |-> message,
   value |-> NoneV, parsed |-> parsed]

\* return value; parsed tells whether response.json() was called on the way
Returned(value, parsed) ==
  [raised |-> FALSE, status_code |-> -1, message |-> NoneV,
   value |-> value, parsed |-> parsed]

NoApi == [raised |-> FALSE, status_code |-> -1, message |-> NoneV,
          value |-> NoneV, parsed |-> FALSE]

OperationCompleted ==
  ObjV(<<T("status"), T("message")>>,
       <<StrV(T("success")), StrV(T("Operation completed successfully"))>>)

TextData(text) ==
  ObjV(<<T("status"), T("data")>>, <<StrV(T("success")), StrV(text)>>)

\* variant: the error message is taken from the body text, never from the
\* "message" member of a JSON body
make_api_request_response_text(status_code, body) ==
  IF status_code >= 400 THEN
    LET http_status == StrV(<<"HTTP", Space>> \o IntText(status_code))
    IN PetstoreAPIError(status_code,
                        IF body # <<>> THEN StrV(body) ELSE http_status, TRUE)
  ELSE IF body = <<>> THEN Returned(OperationCompleted, FALSE)
  ELSE LET data == Loads(body) IN
    IF data.ok THEN Returned(data.v, TRUE) ELSE Returned(TextData(body), TRUE)

\* variant: an empty body is not handled before response.json()
make_api_request_response_parse(status_code, body) ==
  IF status_code >= 400 THEN
    LET http_status == StrV(<<"HTTP", Space>> \o IntText(status_code))
        error_data == Loads(body)
        error_msg ==
          IF error_data.ok
          THEN IF error_data.v.t = "obj" /\ HasKey(error_data.v, T("message"))
               THEN Get(error_data.v, T("message"))
               ELSE http_status
          ELSE IF body # <<>> THEN StrV(body) ELSE http_status
    IN PetstoreAPIError(status_code, error_msg, TRUE)
  ELSE LET data == Loads(body) IN
    IF data.ok THEN Returned(data.v, TRUE) ELSE Returned(TextData(body), TRUE)

\* variant: a body that is not JSON is returned bare
make_api_request_response_bare(status_code, body) ==
  IF status_code >= 400 THEN
    LET http_status == StrV(<<"HTTP", Space>> \o IntText(status_code))
        error_data == Loads(body)
        error_msg ==
          IF error_data.ok
          THEN IF error_data.v.t = "obj" /\ HasKey(error_data.v, T("message"))
               THEN Get(error_data.v, T("message"))
               ELSE http_status
          ELSE IF body # <<>> THEN StrV(body) ELSE http_status
    IN PetstoreAPIError(status_code, error_msg, TRUE)
  ELSE IF body = <<>> THEN Returned(OperationCompleted, FALSE)
  ELSE LET data == Loads(body) IN
    IF data.ok THEN Returned(data.v, TRUE) ELSE Returned(StrV(body), TRUE)

\* variant: a response fails only above status 400
make_api_request_response_above(status_code, body) ==
  IF status_code > 400 THEN
    LET http_status == StrV(<<"HTTP", Space>> \o IntText(status_code))
        error_data == Loads(body)
        error_msg ==
          IF error_data.ok
          THEN IF error_data.v.t = "obj" /\ HasKey(error_data.v, T("message"))
               THEN Get(error_data.v, T("message"))
               ELSE http_status
          ELSE IF body # <<>> THEN StrV(body) ELSE http_status
    IN PetstoreAPIError(status_code, error_msg, TRUE)
  ELSE IF body = <<>> THEN Returned(OperationCompleted, FALSE)
  ELSE LET data == Loads(body) IN
    IF data.ok THEN Returned(data.v, TRUE) ELSE Returned(TextData(body), TRUE)

\* what make_api_request does with the response of the backend
make_api_request_response(status_code, body) ==
  IF status_code >= 400 THEN
    LET http_status == StrV(<<"HTTP", Space>> \o IntText(status_code))
        error_data == Loads(body)
        error_msg ==
          IF error_data.ok
          THEN IF error_data.v.t = "obj" /\ HasKey(error_data.v, T("message"))
               THEN Get(error_data.v, T("message"))
               ELSE http_status
          ELSE IF body # <<>> THEN StrV(body) ELSE http_status
    IN PetstoreAPIError(status_code, error_msg, TRUE)
  ELSE IF body = <<>> THEN Returned(OperationCompleted, FALSE)
  ELSE LET data == Loads(body) IN
    IF data.ok THEN Returned(data.v, TRUE) ELSE Returned(TextData(body), TRUE)

\* variant: the text of the transport error is not put into the message
make_api_request_error_plain(text) ==
  PetstoreAPIError(0, StrV(T("Request failed")), FALSE)

\* except httpx.RequestError as e
make_api_request_error(text) ==
  PetstoreAPIError(0, StrV(T("Request failed: ") \o text), FALSE)

(***************************************************************************)
(* Tool results                                                            *)
(***************************************************************************)
CallToolResult(text) == [isError |-> FALSE, content |-> <<text>>]

NoResult == [isError |-> FALSE, content |-> <<>>]

\* variant: the value is put into the text with str() instead of json.dumps
handler_result_str(st, r) ==
  IF r.raised
  THEN CallToolResult(st.errText \o Format(r.message))
  ELSE CallToolResult(st.okText \o Format(r.value))

\* the end of every handler: the result built from what make_api_request
\* returned, or from the PetstoreAPIError it raised
handler_result(st, r) ==
  IF r.raised
  THEN CallToolResult(st.errText \o Format(r.message))
  ELSE CallToolResult(st.okText \o Dumps(r.value, 0))

(***************************************************************************)
(* A tools/call request arriving at the server.  Every @server.call_tool() *)
(* stores its function as the server's one handler of tools/call requests, *)
(* so the function decorated last handles every request, whatever the tool *)
(* name.  The server calls it as func(name, arguments); the handlers are   *)
(* declared with the single parameter `arguments`, so the call raises      *)
(* TypeError before the body runs, and the server answers with an error    *)
(* result that carries the text of the exception.                          *)
(***************************************************************************)
call_tool(name, arguments) ==
  LET func == Handlers[Len(Handlers)] IN
  [isError |-> TRUE,
   content |-> << <<func, "() takes 1 positional argument but 2 were given">> >>]

(***************************************************************************)
(* The agent side: the client configuration, the MCPTransport and the      *)
(* tasks of PetstoreAgent.  A session is a positive number, None is 0.     *)
(***************************************************************************)
ServerConfig ==
  [command |-> "python3", args |-> <<"./petstore-mcp-server.py">>, timeout |-> 30]

ClientConfig(server, retry_attempts, retry_delay, log_level, enable_caching, cache_ttl) ==
  [server |-> server, retry_attempts |-> retry_attempts,
   retry_delay |-> retry_delay, log_level |-> log_level,
   enable_caching |-> enable_caching, cache_ttl |-> cache_ttl]

ClientConfig_default == ClientConfig(ServerConfig, 3, "1.0", "INFO", TRUE, 300)

MCPTransport(server_path) == [server_path |-> server_path, session |-> 0]

PetstoreAgent(config) ==
  [config |-> config, transport |-> MCPTransport(config.server.args[1])]

NoConnections == [opened |-> 0, closed |-> {}]

\* variant: connect() keeps using a session that is still open
connect_reuse(transport, conns) ==
  IF transport.session # 0 /\ transport.session \notin conns.closed
  THEN [transport |-> transport, conns |-> conns, session |-> transport.session]
  ELSE [transport |-> [transport EXCEPT !.session = conns.opened + 1],
        conns |-> [conns EXCEPT !.opened = conns.opened + 1],
        session |-> conns.opened + 1]

\* connect() up to the assignment of self.session: a server process is
\* started, a ClientSession is made over its pipes, the transport refers to it
connect(transport, conns) ==
  [transport |-> [transport EXCEPT !.session = conns.opened + 1],
   conns |-> [conns EXCEPT !.opened = conns.opened + 1],
   session |-> conns.opened + 1]

\* the context of connect() is left: its session and its server process end,
\* and self.session is left as it is
connect_exit(transport, conns, session) ==
  [transport |-> transport,
   conns |-> [conns EXCEPT !.closed = conns.closed \cup {session}]]

\* what session.call_tool gives: a CallToolResult or an exception
ToolReply(content) == [kind |-> "result", content |-> content, text |-> <<>>]

ToolException(text) == [kind |-> "exception", content |-> <<>>, text |-> text]

NoReply == [kind |-> "none", content |-> <<>>, text |-> <<>>]

TextContent(text) == [type |-> "text", text |-> text]

ImageContent == [type |-> "image", text |-> <<>>]

\* MCPTransport.call_tool from the answer of session.call_tool to its return
transport_call_tool_return(reply) ==
  IF reply.kind = "exception"
  THEN ObjV(<<T("error")>>, <<StrV(reply.text)>>)
  ELSE IF Len(reply.content) > 0 /\ reply.content[1].type = "text"
  THEN ObjV(<<T("response")>>, <<StrV(reply.content[1].text)>>)
  ELSE ObjV(<<T("status")>>, <<StrV(T("success"))>>)

\* str.strip() on the left: the text without its leading white space
StripLeft(text) == SkipWS(text)

\* str.find(atom): the index of the first occurrence, 0 when there is none
Find(text, atom) ==
  IF \E i \in 1..Len(text) : text[i] = atom
  THEN CHOOSE i \in 1..Len(text) :
         text[i] = atom /\ \A j \in 1..(i - 1) : text[j] # atom
  ELSE 0

\* variant: a text that is not JSON is returned as an error
client_call_tool_return_flagged(reply) ==
  IF reply.kind = "exception"
  THEN ObjV(<<T("error")>>, <<StrV(reply.text)>>)
  ELSE IF Len(reply.content) > 0 /\ reply.content[1].type = "text"
  THEN LET response_text == reply.content[1].text
           stripped == StripLeft(response_text)
       IN IF stripped # <<>> /\ stripped[1] \in {"{", "["} /\ Loads(stripped).ok
          THEN Loads(stripped).v
          ELSE ObjV(<<T("error")>>, <<StrV(response_text)>>)
  ELSE ObjV(<<T("status")>>, <<StrV(T("success"))>>)

\* PetstoreClient._call_tool from the answer of session.call_tool to its return
client_call_tool_return(reply) ==
  IF reply.kind = "exception"
  THEN ObjV(<<T("error")>>, <<StrV(reply.text)>>)
  ELSE IF Len(reply.content) > 0 /\ reply.content[1].type = "text"
  THEN LET response_text == reply.content[1].text
           stripped == StripLeft(response_text)
           json_start == IF Find(response_text, "{") # 0
                         THEN Find(response_text, "{")
                         ELSE Find(response_text, "[")
           json_text == SubSeq(response_text, json_start, Len(response_text))
       IN IF stripped # <<>> /\ stripped[1] \in {"{", "["} /\ json_start # 0
             /\ Loads(json_text).ok
          THEN Loads(json_text).v
          ELSE ObjV(<<T("message")>>, <<StrV(response_text)>>)
  ELSE ObjV(<<T("status")>>, <<StrV(T("success"))>>)

\* search_available_pets after its call: the pets in the value it was given
search_available_pets_return(result) ==
  IF result.t = "arr" THEN result
  ELSE IF result.t = "obj" /\ HasKey(result, T("pets")) THEN Get(result, T("pets"))
  ELSE ArrV(<<>>)

\* get_store_summary: the count it reports for the value find_pets_by_status gave
store_summary_count(result) == IF result.t = "arr" THEN Len(result.kids) ELSE 0

\* what the two callers of session.call_tool return for one answer
Got(reply) ==
  [kind |-> "got", reply |-> reply,
   transport |-> transport_call_tool_return(reply),
   client |-> client_call_tool_return(reply),
   pets |-> search_available_pets_return(client_call_tool_return(reply)),
   count |-> store_summary_count(client_call_tool_return(reply))]

NotGot ==
  [kind |-> "none", reply |-> NoReply, transport |-> NoneV, client |-> NoneV,
   pets |-> NoneV, count |-> 0]

\* a task up to its await of transport.call_tool: the tool call it makes and
\* the head of the mapping it will return, or the exception it raises
ToolCallPlan(head, name, arguments) ==
  [kind |-> "call", head |-> head, name |-> name, arguments |-> arguments,
   type |-> ""]

TaskRaise(type) ==
  [kind |-> "raise", head |-> EmptyDict, name |-> "", arguments |-> EmptyDict,
   type |-> type]

NoPlan ==
  [kind |-> "none", head |-> EmptyDict, name |-> "", arguments |-> EmptyDict,
   type |-> ""]

\* the mapping d without key
RECURSIVE DictWithoutFrom(_, _, _)
DictWithoutFrom(d, key, i) ==
  IF i > Len(d.keys) THEN EmptyDict
  ELSE LET rest == DictWithoutFrom(d, key, i + 1) IN
    IF d.keys[i] = key THEN rest
    ELSE ObjV(<<d.keys[i]>> \o rest.keys, <<d.kids[i]>> \o rest.kids)

DictWithout(d, key) == DictWithoutFrom(d, key, 1)

TaskHead(task) == ObjV(<<T("task")>>, <<StrV(T(task))>>)

ActionHead(task, action) ==
  ObjV(<<T("task"), T("action")>>, <<StrV(T(task)), action>>)

find_pets_task(self, kwargs) ==
  IF \E i \in 1..Len(kwargs.keys) : kwargs.keys[i] \notin {T("status"), T("tags")}
  THEN TaskRaise("TypeError")
  ELSE LET status == IF HasKey(kwargs, T("status")) THEN Get(kwargs, T("status"))
                     ELSE StrV(T("available"))
           tags == Get(kwargs, T("tags"))
       IN IF Truthy(tags)
          THEN ToolCallPlan(TaskHead("find_pets"), "find_pets_by_tags",
                         ObjV(<<T("tags")>>, <<tags>>))
          ELSE ToolCallPlan(TaskHead("find_pets"), "find_pets_by_status",
                         ObjV(<<T("status")>>, <<status>>))

manage_pet_task(self, kwargs) ==
  IF ~HasKey(kwargs, T("action")) THEN TaskRaise("TypeError")
  ELSE LET action == Get(kwargs, T("action"))
           pet_data == DictWithout(kwargs, T("action"))
           head == ActionHead("manage_pet", action)
       IN CASE action = StrV(T("add")) ->
                 ToolCallPlan(head, "add_pet", ObjV(<<T("pet")>>, <<pet_data>>))
            [] action = StrV(T("update")) ->
                 ToolCallPlan(head, "update_pet", ObjV(<<T("pet")>>, <<pet_data>>))
            [] action = StrV(T("delete")) ->
                 IF HasKey(pet_data, T("id"))
                 THEN ToolCallPlan(head, "delete_pet",
                                ObjV(<<T("pet_id")>>, <<Get(pet_data, T("id"))>>))
                 ELSE TaskRaise("KeyError")
            [] OTHER -> TaskRaise("ValueError")

process_order_task(self, kwargs) ==
  IF ~HasKey(kwargs, T("action")) THEN TaskRaise("TypeError")
  ELSE LET action == Get(kwargs, T("action"))
           order_data == DictWithout(kwargs, T("action"))
           head == ActionHead("process_order", action)
       IN CASE action = StrV(T("place")) ->
                 ToolCallPlan(head, "place_order", ObjV(<<T("order")>>, <<order_data>>))
            [] action = StrV(T("get")) ->
                 IF HasKey(order_data, T("id"))
                 THEN ToolCallPlan(head, "get_order_by_id",
                                ObjV(<<T("order_id")>>, <<Get(order_data, T("id"))>>))
                 ELSE TaskRaise("KeyError")
            [] action = StrV(T("cancel")) ->
                 IF HasKey(order_data, T("id"))
                 THEN ToolCallPlan(head, "delete_order",
                                ObjV(<<T("order_id")>>, <<Get(order_data, T("id"))>>))
                 ELSE TaskRaise("KeyError")
            [] OTHER -> TaskRaise("ValueError")

manage_user_task(self, kwargs) ==
  IF ~HasKey(kwargs, T("action")) THEN TaskRaise("TypeError")
  ELSE LET action == Get(kwargs, T("action"))
           user_data == DictWithout(kwargs, T("action"))
           head == ActionHead("manage_user", action)
       IN CASE action = StrV(T("create")) ->
                 ToolCallPlan(head, "create_user", ObjV(<<T("user")>>, <<user_data>>))
            [] action = StrV(T("login")) ->
                 ToolCallPlan(head, "login_user", user_data)
            [] action = StrV(T("get")) ->
                 IF HasKey(user_data, T("username"))
                 THEN ToolCallPlan(head, "get_user_by_name",
                                ObjV(<<T("username")>>,
                                     <<Get(user_data, T("username"))>>))
                 ELSE TaskRaise("KeyError")
            [] OTHER -> TaskRaise("ValueError")

\* variant: a task type that is not known is run as a search for pets
execute_task_fallback(self, task_type, kwargs) ==
  CASE task_type = "find_pets" -> find_pets_task(self, kwargs)
    [] task_type = "manage_pet" -> manage_pet_task(self, kwargs)
    [] task_type = "process_order" -> process_order_task(self, kwargs)
    [] task_type = "manage_user" -> manage_user_task(self, kwargs)
    [] OTHER -> find_pets_task(self, EmptyDict)

\* execute_task inside the context of connect(), up to the await of the call
execute_task(self, task_type, kwargs) ==
  CASE task_type = "find_pets" -> find_pets_task(self, kwargs)
    [] task_type = "manage_pet" -> manage_pet_task(self, kwargs)
    [] task_type = "process_order" -> process_order_task(self, kwargs)
    [] task_type = "manage_user" -> manage_user_task(self, kwargs)
    [] OTHER -> TaskRaise("ValueError")

\* variant: with caching enabled the task reports the time its result may be kept
task_return_cached(self, plan, result) ==
  IF self.config.enable_caching
  THEN DictSet(DictSet(plan.head, T("result"), result), T("ttl"),
               NumV(IntText(self.config.cache_ttl)))
  ELSE DictSet(plan.head, T("result"), result)

\* a task from the return of transport.call_tool to its own return
task_return(self, plan, result) == DictSet(plan.head, T("result"), result)

(***************************************************************************)
(* The wildfire rescue agent.  A call that raises gives [raised, error]    *)
(* with the text of str(e); the times the code reads from the clock are    *)
(* left out of the mappings it builds.                                     *)
(***************************************************************************)
\* self.rescue_operation_id, made from the clock when the agent is built
rescue_operation_id == <<"wildfire_rescue_", "2", "0", "2", "5">>

\* str.lower() on one atom of a text
LowerAtom(a) ==
  CASE a = "Needs" -> "needs"
    [] a = "MEDICAL" -> "medical"
    [] a = "Care" -> "care"
    [] a = "Treatment" -> "treatment"
    [] a = "Ready" -> "ready"
    [] a = "Adoption" -> "adoption"
    [] a = "Available" -> "available"
    [] a = "Stressed" -> "stressed"
    [] a = "Injured" -> "injured"
    [] OTHER -> a

\* str.lower()
Lower(text) == [i \in 1..Len(text) |-> LowerAtom(text[i])]

\* phrase in text
Contains(text, phrase) ==
  \E i \in 0..(Len(text) - Len(phrase)) :
    SubSeq(text, i + 1, i + Len(phrase)) = phrase

\* str.title() on one atom of a text
TitleAtom(a) ==
  CASE a = "dog" -> "Dog"
    [] a = "cat" -> "Cat"
    [] a = "CAT" -> "Cat"
    [] OTHER -> a

\* str.title()
Title(text) == [i \in 1..Len(text) |-> TitleAtom(text[i])]

Raised(error) == [raised |-> TRUE, error |-> error, value |-> NoneV]

Gives(value) == [raised |-> FALSE, error |-> <<>>, value |-> value]

\* the fields the user_template of a prompt template names
TemplateFields(template_name) ==
  CASE template_name = "pet_assessment" ->
         <<"name", "species", "breed", "age", "rescue_location", "rescue_date",
           "condition", "notes">>
    [] template_name = "batch_processing" ->
         <<"count", "incident_id", "incident_name", "location", "date", "team",
           "pets_data">>

RECURSIVE FormatFields(_, _, _)
\* the values of the fields, as str.format() puts them into the template
FormatFields(fields, kwargs, i) ==
  IF i > Len(fields) THEN <<>>
  ELSE Format(Get(kwargs, T(fields[i]))) \o <<Newline>>
       \o FormatFields(fields, kwargs, i + 1)

\* PromptManager.get_prompt for the two templates of the rescue agent:
\* user_template.format(**kwargs) raises KeyError at the first field that
\* kwargs does not have
get_prompt(template_name, kwargs) ==
  LET fields == TemplateFields(template_name)
      missing == {i \in 1..Len(fields) : ~HasKey(kwargs, T(fields[i]))}
  IN IF missing # {}
     THEN Raised(<<"'", fields[CHOOSE i \in missing : \A j \in missing : i <= j], "'">>)
     ELSE Gives(StrV(FormatFields(fields, kwargs, 1)))

\* default of dict.get(key, default)
GetOr(d, key, default) == IF HasKey(d, key) THEN Get(d, key) ELSE default

Tag(id, name) ==
  ObjV(<<T("id"), T("name")>>, <<NumV(IntText(id)), StrV(name)>>)

\* variant: readiness for adoption is looked for before medical care
extract_pet_details_adoption_first(ai_response, original_data) ==
  LET ai_lower == Lower(ai_response)
      species == GetOr(original_data, T("species"), StrV(T("Unknown")))
      medical == \/ Contains(ai_lower, <<"medical", Space, "care">>)
                 \/ Contains(ai_lower, <<"treatment">>)
      adoption == \/ Contains(ai_lower, <<"ready", Space, "for", Space, "adoption">>)
                  \/ Contains(ai_lower, <<"available">>)
      status == IF adoption THEN T("available") ELSE T("pending")
      tags == << Tag(1, T("wildfire_rescue")), Tag(2, rescue_operation_id),
                 Tag(3, T("needs_assessment")) >>
              \o (IF adoption THEN <<Tag(4, T("adoption_ready"))>>
                  ELSE IF medical THEN <<Tag(4, T("medical_care_needed"))>>
                  ELSE <<>>)
              \o (IF Contains(ai_lower, <<"injured">>) THEN <<Tag(5, T("injured"))>> ELSE <<>>)
              \o (IF Contains(ai_lower, <<"stressed">>) \/ Contains(ai_lower, <<"trauma">>)
                  THEN <<Tag(6, T("trauma_care"))>> ELSE <<>>)
              \o (IF Contains(ai_lower, <<"friendly">>) THEN <<Tag(7, T("friendly"))>> ELSE <<>>)
  IN IF species.t # "str"
     THEN Raised(T("object has no attribute 'title'"))
     ELSE Gives(ObjV(
       <<T("name"), T("photoUrls"), T("status"), T("category"), T("tags")>>,
       << GetOr(original_data, T("name"), StrV(<<"Rescued", Space, "Pet">>)),
          ArrV(<<StrV(<<"https://rescue-photos.example.com", "/">>
                      \o rescue_operation_id \o <<"/">>
                      \o Format(GetOr(original_data, T("rescue_id"), StrV(T("unknown"))))
                      \o <<".jpg">>)>>),
          StrV(status),
          ObjV(<<T("id"), T("name")>>, <<NumV(T("1")), StrV(Title(species.s))>>),
          ArrV(tags) >>))

\* _extract_pet_details_from_ai_response
extract_pet_details(ai_response, original_data) ==
  LET ai_lower == Lower(ai_response)
      species == GetOr(original_data, T("species"), StrV(T("Unknown")))
      medical == \/ Contains(ai_lower, <<"medical", Space, "care">>)
                 \/ Contains(ai_lower, <<"treatment">>)
      adoption == \/ Contains(ai_lower, <<"ready", Space, "for", Space, "adoption">>)
                  \/ Contains(ai_lower, <<"available">>)
      status == IF medical THEN T("pending")
                ELSE IF adoption THEN T("available") ELSE T("pending")
      tags == << Tag(1, T("wildfire_rescue")), Tag(2, rescue_operation_id),
                 Tag(3, T("needs_assessment")) >>
              \o (IF medical THEN <<Tag(4, T("medical_care_needed"))>>
                  ELSE IF adoption THEN <<Tag(4, T("adoption_ready"))>>
                  ELSE <<>>)
              \o (IF Contains(ai_lower, <<"injured">>) THEN <<Tag(5, T("injured"))>> ELSE <<>>)
              \o (IF Contains(ai_lower, <<"stressed">>) \/ Contains(ai_lower, <<"trauma">>)
                  THEN <<Tag(6, T("trauma_care"))>> ELSE <<>>)
              \o (IF Contains(ai_lower, <<"friendly">>) THEN <<Tag(7, T("friendly"))>> ELSE <<>>)
  IN IF species.t # "str"
     THEN Raised(T("object has no attribute 'title'"))
     ELSE Gives(ObjV(
       <<T("name"), T("photoUrls"), T("status"), T("category"), T("tags")>>,
       << GetOr(original_data, T("name"), StrV(<<"Rescued", Space, "Pet">>)),
          ArrV(<<StrV(<<"https://rescue-photos.example.com", "/">>
                      \o rescue_operation_id \o <<"/">>
                      \o Format(GetOr(original_data, T("rescue_id"), StrV(T("unknown"))))
                      \o <<".jpg">>)>>),
          StrV(status),
          ObjV(<<T("id"), T("name")>>, <<NumV(T("1")), StrV(Title(species.s))>>),
          ArrV(tags) >>))

\* the assessment mapping assess_rescued_pet returns for the model's text
assess_rescued_pet_return(pet_data, assessment_text) ==
  ObjV(<<T("pet_id"), T("name"), T("ai_assessment"), T("rescue_operation")>>,
       <<Get(pet_data, T("rescue_id")), Get(pet_data, T("name")),
         StrV(assessment_text), StrV(rescue_operation_id)>>)

\* what add_rescued_pet_to_store returns when execute_task has returned
add_rescued_pet_return(pet_details, assessment, result) ==
  ObjV(<<T("success"), T("pet_details"), T("ai_assessment"), T("mcp_result"),
         T("rescue_operation")>>,
       <<BoolV("true"), pet_details, assessment, result, StrV(rescue_operation_id)>>)

\* except Exception as e, in add_rescued_pet_to_store
add_rescued_pet_except(error, pet_data) ==
  ObjV(<<T("success"), T("error"), T("pet_data")>>,
       <<BoolV("false"), StrV(error), pet_data>>)

\* the results mapping process_wildfire_rescue_operation starts with; given
\* lists the keys put into it later
rescue_results ==
  [pets_processed |-> <<>>, successful_additions |-> 0, failed_additions |-> 0,
   ai_batch_analysis |-> NoneV, given |-> {}, error |-> <<>>, total_pets |-> 0]

\* variant: a pet that failed is appended and not counted
record_pet_result_uncounted(results, pet_result) ==
  LET appended == [results EXCEPT !.pets_processed = Append(@, pet_result)] IN
  IF Truthy(Get(pet_result, T("success")))
  THEN [appended EXCEPT !.successful_additions = @ + 1]
  ELSE appended

\* results["pets_processed"].append(pet_result) and the count that follows
record_pet_result(results, pet_result) ==
  LET appended == [results EXCEPT !.pets_processed = Append(@, pet_result)] IN
  IF Truthy(Get(pet_result, T("success")))
  THEN [appended EXCEPT !.successful_additions = @ + 1]
  ELSE [appended EXCEPT !.failed_additions = @ + 1]

\* except Exception as e, in process_wildfire_rescue_operation
rescue_results_except(results, error) ==
  [results EXCEPT !.error = error, !.given = @ \cup {"error", "completed_at"}]

\* the end of process_wildfire_rescue_operation after the loop
rescue_results_completed(results, pets) ==
  [results EXCEPT !.total_pets = Len(pets.kids),
                  !.given = @ \cup {"completed_at", "total_pets"}]

(***************************************************************************)
(* Inputs                                                                  *)
(***************************************************************************)
MaxId == 1

MaxUsers == 1

MaxListings == 2

AbsentV == [t |-> "absent", s |-> <<>>, keys |-> <<>>, kids |-> <<>>]

SomeObject == ObjV(<<T("name")>>, <<StrV(T("rex"))>>)

RECURSIVE Repeat(_, _)
Repeat(v, n) == IF n = 0 THEN <<>> ELSE <<v>> \o Repeat(v, n - 1)

FieldValues(f) ==
  CASE f \in {"pet_id", "order_id"} -> {NumV(IntText(n)) : n \in 0..MaxId}
    [] f \in {"pet", "order", "user"} -> {EmptyDict, SomeObject}
    [] f = "users" -> {ArrV(Repeat(SomeObject, n)) : n \in 0..MaxUsers}
    [] f = "username" -> {StrV(<<>>), StrV(T("bob"))}
    [] f = "tags" -> {ArrV(<<StrV(T("fire"))>>), StrV(T("fire"))}
    [] f = "status" -> {StrV(T("sold"))}
    [] OTHER -> {StrV(T("x"))}

Fields == UNION {Range(handle_list_tools[i].properties) :
                   i \in 1..Len(handle_list_tools)}

RECURSIVE BuildArguments(_, _, _)
BuildArguments(props, choice, i) ==
  IF i > Len(props) THEN EmptyDict
  ELSE LET rest == BuildArguments(props, choice, i + 1) IN
    IF choice[i] = AbsentV THEN rest
    ELSE ObjV(<<T(props[i])>> \o rest.keys, <<choice[i]>> \o rest.kids)

\* the argument mappings tried for a tool: every property of its schema is
\* either left out or given one of the values of FieldValues
ArgumentsOf(name) ==
  LET props == ToolDef(name).properties
      vals == UNION {FieldValues(f) : f \in Fields} \cup {AbsentV}
  IN {BuildArguments(props, c, 1) :
        c \in {c \in [1..Len(props) -> vals] :
                 \A i \in 1..Len(props) :
                   c[i] = AbsentV \/ c[i] \in FieldValues(props[i])}}

Statuses == {200, 399, 400, 404, 500}

Bodies ==
  { <<>>,
    <<"{", Quote, "message", Quote, ":", Quote, "Pet", Space, "not", Space,
      "found", Quote, "}">>,
    <<"{", Quote, "code", Quote, ":", "4", "0", "4", ",", Space,
      Quote, "message", Quote, ":", "7", "}">>,
    <<"{", Quote, "id", Quote, ":", "7", ",", Quote, "name", Quote, ":",
      Quote, "rex", Quote, "}">>,
    <<"{", Quote, "a", Quote, ":", "1", ",", Quote, "a", Quote, ":", "2", "}">>,
    <<"[", "{", Quote, "id", Quote, ":", "7", "}", ",", "{", "}", "]">>,
    <<"[", "]">>,
    <<"5">>,
    <<"null">>,
    <<Quote, "a", Bslash, Quote, "b", Quote>>,
    <<"Not", Space, "Found">>,
    <<"say", Space, Quote, "hi", Quote, Newline>>,
    <<"{", Quote, "message", Quote, ":">> }

TransportErrors == {T("Connection refused"), <<>>}

UnknownNames == {"no_such_tool"}

MaxConnections == 2

\* argument values for the invocations whose histories are compared: numbers
\* and strings for the path arguments, among them strings that are path
\* segments of other endpoints
HistValues(f) ==
  CASE f = "pet_id" -> {NumV(T("7")), StrV(T("findByStatus")),
                        StrV(<<"7", "/", "uploadImage">>)}
    [] f = "order_id" -> {NumV(T("7")), StrV(T("inventory"))}
    [] f = "username" -> {StrV(T("bob")), StrV(T("login"))}
    [] f \in {"pet", "order", "user"} -> {SomeObject}
    [] f = "users" -> {ArrV(<<SomeObject>>)}
    [] f = "tags" -> {ArrV(<<StrV(T("fire"))>>)}
    [] f = "status" -> {StrV(T("sold"))}
    [] OTHER -> {StrV(T("x"))}

\* the argument mappings of these invocations: empty, or every property of
\* the schema given one of the values of HistValues
HistArgumentsOf(name) ==
  LET props == ToolDef(name).properties
      vals == UNION {HistValues(f) : f \in Fields}
  IN {EmptyDict} \cup
     {BuildArguments(props, c, 1) :
        c \in {c \in [1..Len(props) -> vals] :
                 \A i \in 1..Len(props) : c[i] \in HistValues(props[i])}}

HistStatuses == {200, 404}

HistBodies ==
  { <<"{", Quote, "id", Quote, ":", "7", ",", Quote, "name", Quote, ":",
      Quote, "rex", Quote, "}">>,
    <<"Not", Space, "Found">> }

\* the retry and caching fields take values other than the defaults
Configs ==
  {ClientConfig_default,
   ClientConfig(ServerConfig, 1, "1.0", "INFO", TRUE, 300),
   ClientConfig(ServerConfig, 3, "0.5", "INFO", FALSE, 60),
   ClientConfig(ServerConfig, 3, "1.0", "DEBUG", TRUE, 300)}

Kwargs(ks, vs) == ObjV([i \in 1..Len(ks) |-> T(ks[i])], vs)

\* the tasks given to execute_task: a task type and its keyword arguments
AgentTasks ==
  {<<"find_pets", EmptyDict>>,
   <<"find_pets", Kwargs(<<"tags">>, <<ArrV(<<StrV(T("fire"))>>)>>)>>,
   <<"find_pets", Kwargs(<<"name">>, <<StrV(T("rex"))>>)>>,
   <<"manage_pet", Kwargs(<<"action", "name">>, <<StrV(T("add")), StrV(T("rex"))>>)>>,
   <<"manage_pet", Kwargs(<<"action", "id">>, <<StrV(T("delete")), NumV(T("7"))>>)>>,
   <<"manage_pet", Kwargs(<<"action">>, <<StrV(T("delete"))>>)>>,
   <<"process_order", Kwargs(<<"action", "id">>, <<StrV(T("get")), NumV(T("7"))>>)>>,
   <<"manage_user", Kwargs(<<"action", "username">>, <<StrV(T("get")), StrV(T("bob"))>>)>>,
   <<"manage_user", Kwargs(<<"action">>, <<StrV(T("rename"))>>)>>,
   <<"feed_pets", EmptyDict>>}

\* what session.call_tool gives when the text is JSON, or not a text
ChannelReplies ==
  {ToolReply(<<TextContent(<<"[", "{", Quote, "id", Quote, ":", "7", "}", "]">>)>>),
   ToolReply(<<TextContent(<<Space, "{", Quote, "id", Quote, ":", "7", "}", Newline>>)>>),
   ToolReply(<<TextContent(<<"{", Quote, "error", Quote, ":", "7">>)>>),
   ToolReply(<<TextContent(<<>>)>>),
   ToolReply(<<>>), ToolReply(<<ImageContent>>),
   ToolException(T("Connection closed")), ToolException(<<>>)}

\* what session.call_tool gives
Replies ==
  {ToolReply(<<TextContent(T("ok"))>>), ToolReply(<<>>),
   ToolReply(<<ImageContent>>), ToolException(T("Connection closed"))}

\* the longest list of rescued pets of an operation
MaxPets == 2

\* the most sentences of an AI response
MaxSentences == 2

RescuedPet(name, species) ==
  Kwargs(<<"rescue_id", "name", "species", "breed", "age", "rescue_location",
           "rescue_date", "condition", "notes">>,
         <<StrV(T("WF-") \o name), StrV(name), species, StrV(T("mixed")),
           NumV(T("3")), StrV(T("Paradise")), StrV(T("2025-01-15")),
           StrV(T("smoke")), StrV(T("found near the road"))>>)

\* the entries of "rescued_pets": a complete pet, a pet without notes, a
\* pet whose species is None, and an entry that is not a mapping
RescuedPets ==
  { RescuedPet(T("rex"), StrV(T("dog"))),
    DictWithout(RescuedPet(T("tom"), StrV(T("CAT"))), T("notes")),
    RescuedPet(T("kit"), NoneV),
    StrV(T("rex")) }

RescueOperation(pets) ==
  Kwargs(<<"incident_id", "incident_name", "location", "date", "team", "count",
           "pets_data", "rescued_pets">>,
         <<StrV(T("WF-2025-001")), StrV(T("Camp Fire")), StrV(T("Paradise")),
           StrV(T("2025-01-15")), StrV(T("Team Alpha")), NumV(IntText(Len(pets))),
           StrV(T("see list")), ArrV(pets)>>)

\* the rescue operations: every list of up to MaxPets entries, an operation
\* without "team", one without "rescued_pets", one whose "rescued_pets" is None
RescueOperations ==
  {RescueOperation(p) : p \in UNION {[1..n -> RescuedPets] : n \in 0..MaxPets}}
  \cup {DictWithout(RescueOperation(<<RescuedPet(T("rex"), StrV(T("dog")))>>), T("team")),
        DictWithout(RescueOperation(<<>>), T("rescued_pets")),
        DictSet(RescueOperation(<<>>), T("rescued_pets"), NoneV)}

\* what the model answers to an assessment prompt
Assessments ==
  {<<"Needs", Space, "MEDICAL", Space, "care">>,
   <<"Ready", Space, "for", Space, "Adoption">>}

BatchAnalyses == {<<"two", Space, "pets">>}

\* str(e) of what invoke_bedrock_model raises
ModelErrors == {<<"Bedrock", Space, "throttled">>}

\* how the add_pet call of execute_task ends: the backend accepts the pet,
\* the backend refuses it, the server answers the tools/call request as it
\* does over the channel, session.call_tool raises, connect() raises
AddOutcomes == {"accepted", "refused", "channel", "exception", "unconnected"}

\* the sentences an AI response is made of
Sentences ==
  { <<"Needs", Space, "MEDICAL", Space, "Care">>,
    <<"Treatment", Space, "advised">>,
    <<"Ready", Space, "for", Space, "Adoption">>,
    <<"un", "available", Space, "for", Space, "now">>,
    <<"Injured", Space, "paw">>,
    <<"Stressed", Space, "but", Space, "friendly">>,
    <<"healthy">> }

RECURSIVE JoinSentences(_, _)
JoinSentences(ss, i) ==
  IF i > Len(ss) THEN <<>>
  ELSE ss[i] \o <<".", Space>> \o JoinSentences(ss, i + 1)

\* the AI response texts: up to MaxSentences sentences
AiResponses ==
  {JoinSentences(ss, 1) : ss \in UNION {[1..n -> Sentences] : n \in 0..MaxSentences}}

(***************************************************************************)
(* State                                                                   *)
(***************************************************************************)
VARIABLES
  pc,       \* "idle", "awaiting" (inside http_client.request), "returned", "raised"
  cur,      \* the invocation in progress: how it entered, its name, its arguments
  step,     \* what the handler yielded: a returned text or a request
  sent,     \* the HTTP requests issued by the invocation in progress
  outcome,  \* what came back from the HTTP client
  api,      \* what make_api_request returned or raised
  result    \* the CallToolResult of the invocation

VARIABLES
  listed,   \* the tool lists that the tools/list requests so far were answered with
  tasks,    \* concurrent invocations: for each task, the state of its invocation
  ref       \* an earlier invocation, as it was when it ended

VARIABLES
  petstore_agent,  \* the PetstoreAgent: its config and its transport (with transport.session)
  connections,     \* the connections to the tool server: how many were opened, which are closed
  running,         \* the execute_task coroutines of the agent
  outside          \* the outcome of the latest transport.call_tool made outside execute_task

VARIABLES
  got       \* what the callers of the tool channel were given for the invocation

VARIABLES
  rescue,    \* the call of process_wildfire_rescue_operation in progress
  extracted  \* the latest call of _extract_pet_details_from_ai_response

\* the state of the invocation in progress
call == <<pc, cur, step, sent, outcome, api, result>>

\* the state of the agent side
client == <<petstore_agent, connections, running, outside>>

\* the state that a tool invocation does not touch
\* the state of the wildfire rescue agent
wildfire == <<rescue, extracted>>

others == <<listed, tasks, ref, client, got, wildfire>>

vars == <<call, others>>

\* an execute_task coroutine that is not running
IdleRun ==
  [pc |-> "idle", task_type |-> "", kwargs |-> EmptyDict, own |-> 0,
   plan |-> NoPlan, over |-> 0, reply |-> NoReply, result |-> NoneV]

NoOutside == [kind |-> "none", over |-> 0, result |-> NoneV]

NoCall == [entry |-> "none", name |-> "", arguments |-> EmptyDict]

NoOutcome == [kind |-> "none", status |-> -1, body |-> <<>>]

NoRef ==
  [kind |-> "none", cur |-> NoCall, sent |-> <<>>, outcome |-> NoOutcome,
   result |-> NoResult]

NoRescue ==
  [pc |-> "idle", operation |-> NoneV, pets |-> NoneV, pos |-> 0,
   results |-> rescue_results, assessment |-> NoneV, pet_details |-> NoneV,
   plan |-> NoPlan, issued |-> 0, added |-> <<>>]

NoExtracted == [ai_response |-> <<>>, original_data |-> NoneV, outcome |-> Gives(NoneV)]

Init ==
  /\ pc = "idle"
  /\ cur = NoCall
  /\ step = Return(<<>>)
  /\ sent = <<>>
  /\ outcome = NoOutcome
  /\ api = NoApi
  /\ result = NoResult
  /\ listed = <<>>
  /\ tasks = [i \in {1, 2} |-> [pc |-> "idle", cur |-> NoCall,
                                step |-> Return(<<>>), sent |-> <<>>,
                                outcome |-> NoOutcome, api |-> NoApi,
                                result |-> NoResult]]
  /\ ref = NoRef
  /\ petstore_agent = PetstoreAgent(ClientConfig_default)
  /\ connections = NoConnections
  /\ running = [i \in {1, 2} |-> IdleRun]
  /\ outside = NoOutside
  /\ got = NotGot
  /\ rescue = NoRescue
  /\ extracted = NoExtracted

\* variant: a tool whose earlier invocation failed at transport level answers
\* with that failure again, without a request
CallHandler_tripped(h, arguments) ==
  /\ pc = "idle"
  /\ cur' = [entry |-> "handler", name |-> h, arguments |-> arguments]
  /\ step' = IF ref.cur.name = h /\ ref.outcome.kind = "transport"
             THEN Return(ref.result.content[1])
             ELSE RunHandler(h, arguments)
  /\ IF step'.kind = "return"
     THEN /\ pc' = "returned"
          /\ sent' = <<>>
          /\ result' = CallToolResult(step'.text)
     ELSE /\ pc' = "awaiting"
          /\ sent' = make_api_request_send(step'.method, step'.endpoint,
                        step'.params, step'.json_data, step'.headers)
          /\ result' = NoResult
  /\ outcome' = NoOutcome
  /\ api' = NoApi
  /\ UNCHANGED others

\* a handler function is called with an argument mapping and runs until it
\* returns or awaits the HTTP client
CallHandler(h, arguments) ==
  /\ pc = "idle"
  /\ cur' = [entry |-> "handler", name |-> h, arguments |-> arguments]
  /\ step' = RunHandler(h, arguments)
  /\ IF step'.kind = "return"
     THEN /\ pc' = "returned"
          /\ sent' = <<>>
          /\ result' = CallToolResult(step'.text)
     ELSE /\ pc' = "awaiting"
          /\ sent' = make_api_request_send(step'.method, step'.endpoint,
                        step'.params, step'.json_data, step'.headers)
          /\ result' = NoResult
  /\ outcome' = NoOutcome
  /\ api' = NoApi
  /\ UNCHANGED others

\* the backend answers; make_api_request and the handler run to their end
HttpResponse(status, body) ==
  /\ pc = "awaiting"
  /\ outcome' = [kind |-> "response", status |-> status, body |-> body]
  /\ api' = make_api_request_response(status, body)
  /\ result' = handler_result(step, api')
  /\ pc' = "returned"
  /\ UNCHANGED <<cur, step, sent>>
  /\ UNCHANGED others

\* http_client.request raises httpx.RequestError
HttpRequestError(text) ==
  /\ pc = "awaiting"
  /\ outcome' = [kind |-> "transport", status |-> -1, body |-> text]
  /\ api' = make_api_request_error(text)
  /\ result' = handler_result(step, api')
  /\ pc' = "returned"
  /\ UNCHANGED <<cur, step, sent>>
  /\ UNCHANGED others

\* http_client.request raises an exception that is not an httpx.RequestError:
\* neither make_api_request nor the handler catches it
HttpOtherError ==
  /\ pc = "awaiting"
  /\ outcome' = [kind |-> "fault", status |-> -1, body |-> <<>>]
  /\ pc' = "raised"
  /\ UNCHANGED <<cur, step, sent, api, result>>
  /\ UNCHANGED others

\* a tools/call request for a tool name arrives at the server
CallToolRequest(name, arguments) ==
  /\ pc = "idle"
  /\ cur' = [entry |-> "request", name |-> name, arguments |-> arguments]
  /\ step' = Return(<<>>)
  /\ sent' = <<>>
  /\ outcome' = NoOutcome
  /\ api' = NoApi
  /\ result' = call_tool(name, arguments)
  /\ pc' = "returned"
  /\ UNCHANGED others

\* the invocation is over; nothing of it is kept
Complete ==
  /\ pc \in {"returned", "raised"}
  /\ pc' = "idle"
  /\ cur' = NoCall
  /\ step' = Return(<<>>)
  /\ sent' = <<>>
  /\ outcome' = NoOutcome
  /\ api' = NoApi
  /\ result' = NoResult
  /\ UNCHANGED others

\* a tools/list request is answered by handle_list_tools
ListTools ==
  /\ Len(listed) < MaxListings
  /\ listed' = Append(listed, handle_list_tools)
  /\ UNCHANGED <<call, tasks, ref, client, got, wildfire>>

Next ==
  \/ \E h \in Range(Handlers) : \E a \in ArgumentsOf(h) : CallHandler(h, a)
  \/ \E s \in Statuses : \E b \in Bodies : HttpResponse(s, b)
  \/ \E e \in TransportErrors : HttpRequestError(e)
  \/ HttpOtherError
  \/ \E n \in ToolNames : \E a \in ArgumentsOf(n) : CallToolRequest(n, a)
  \/ \E n \in UnknownNames : CallToolRequest(n, EmptyDict)
  \/ Complete
  \/ ListTools

Spec == Init /\ [][Next]_vars

(***************************************************************************)
(* Concurrent invocations.  The handlers are coroutines of one event loop: *)
(* each call has its own frame (arguments, pet_id, params, result, ...),   *)
(* and all of them share the module's http_client, which hands every       *)
(* response to the call that awaits it.  The backend is a stub that        *)
(* answers a request with a body that names the verb and URL it received.  *)
(***************************************************************************)
Slots == {1, 2}

ConcHandlers == {"get_pet_by_id", "delete_pet", "get_user_by_name"}

ConcStatuses == {200, 404}

IdleTask ==
  [pc |-> "idle", cur |-> NoCall, step |-> Return(<<>>), sent |-> <<>>,
   outcome |-> NoOutcome, api |-> NoApi, result |-> NoResult]

\* variant: the frame is kept in one module-level variable, that of task 1
Frame_shared(ts, i) == ts[1]

\* the frame of the call that task i runs
Frame(ts, i) == ts[i]

\* the body the stub backend answers a request with
EchoBody(request) ==
  Dumps(ObjV(<<T("message")>>, <<StrV(<<request.method, Space>> \o request.url)>>), 0)

\* the handler function h is called: its frame when it returns or awaits
StartTask(h, arguments) ==
  LET st == RunHandler(h, arguments) IN
  [pc |-> IF st.kind = "return" THEN "returned" ELSE "awaiting",
   cur |-> [entry |-> "handler", name |-> h, arguments |-> arguments],
   step |-> st,
   sent |-> IF st.kind = "return" THEN <<>>
            ELSE make_api_request_send(st.method, st.endpoint, st.params,
                                       st.json_data, st.headers),
   outcome |-> NoOutcome,
   api |-> NoApi,
   result |-> IF st.kind = "return" THEN CallToolResult(st.text) ELSE NoResult]

\* the call of frame f gets its response and runs to its end
AnswerTask(f, status, body) ==
  LET r == make_api_request_response(status, body) IN
  [f EXCEPT !.pc = "returned",
            !.outcome = [kind |-> "response", status |-> status, body |-> body],
            !.api = r,
            !.result = handler_result(f.step, r)]

\* the call of frame f gets an httpx.RequestError and runs to its end
FailTask(f, text) ==
  LET r == make_api_request_error(text) IN
  [f EXCEPT !.pc = "returned",
            !.outcome = [kind |-> "transport", status |-> -1, body |-> text],
            !.api = r,
            !.result = handler_result(f.step, r)]

besidesTasks == <<call, listed, ref, client, got, wildfire>>

TaskCall(i, h, arguments) ==
  /\ tasks[i].pc = "idle"
  /\ tasks' = [tasks EXCEPT ![i] = StartTask(h, arguments)]
  /\ UNCHANGED besidesTasks

\* the stub backend answers the request that task i awaits
TaskResponse(i, status) ==
  /\ tasks[i].pc = "awaiting"
  /\ tasks' = [tasks EXCEPT ![i] =
                 AnswerTask(Frame(tasks, i), status, EchoBody(tasks[i].sent[1]))]
  /\ UNCHANGED besidesTasks

\* the request that task i awaits fails at transport level
TaskRequestError(i, text) ==
  /\ tasks[i].pc = "awaiting"
  /\ tasks' = [tasks EXCEPT ![i] = FailTask(Frame(tasks, i), text)]
  /\ UNCHANGED besidesTasks

TaskComplete(i) ==
  /\ tasks[i].pc = "returned"
  /\ tasks' = [tasks EXCEPT ![i] = IdleTask]
  /\ UNCHANGED besidesTasks

\* task i hears from the HTTP client
TaskOutcome(i) ==
  \/ \E e \in TransportErrors : TaskRequestError(i, e)
  \/ \E s \in ConcStatuses : TaskResponse(i, s)

NextConc ==
  \/ \E i \in Slots : \E h \in ConcHandlers : \E a \in ArgumentsOf(h) :
       TaskCall(i, h, a)
  \/ \E i \in Slots : \E s \in ConcStatuses : TaskResponse(i, s)
  \/ \E i \in Slots : \E e \in TransportErrors : TaskRequestError(i, e)
  \/ \E i \in Slots : TaskComplete(i)

\* http_client has a timeout of 30 seconds: every request it is given ends
\* with a response or with an httpx.RequestError
SpecConc ==
  /\ Init
  /\ [][NextConc]_vars
  /\ \A i \in Slots : WF_vars(TaskOutcome(i))

(***************************************************************************)
(* Properties                                                              *)
(***************************************************************************)
\* the invocation in progress is a direct call of a handler function
InHandler == cur.entry = "handler" /\ pc # "idle"

\* the invocation in progress is a tools/call request
InRequest == cur.entry = "request" /\ pc # "idle"

\* the backend has answered the request of the invocation in progress
Answered == InHandler /\ pc = "returned" /\ outcome.kind = "response"

StartsWith(text, prefix) ==
  Len(text) >= Len(prefix) /\ SubSeq(text, 1, Len(prefix)) = prefix

Payload(text, prefix) == SubSeq(text, Len(prefix) + 1, Len(text))

\* the result is one text made of the handler's success prefix and a JSON
\* rendering that reads back as value
CarriesValue(res, value) ==
  /\ ~res.isError
  /\ Len(res.content) = 1
  /\ StartsWith(res.content[1], step.okText)
  /\ Loads(Payload(res.content[1], step.okText)).ok
  /\ Loads(Payload(res.content[1], step.okText)).v = value

\* C1: a handler whose arguments pass its validation has issued exactly one
\* HTTP request, the one built from its arguments, while it waits and after
\* any outcome (any status, a transport error): nothing is sent twice.
C1_OneRequestPerInvocation ==
  (InHandler /\ step.kind = "request") =>
    /\ Len(sent) = 1
    /\ sent[1].method = step.method
    /\ sent[1].url = BASE_URL \o step.endpoint

C1_Witness ==
  /\ Answered
  /\ outcome.status = 500
  /\ api.raised
  /\ Len(sent) = 1

\* the text by which a handler names a required field it misses
RequiredText(f) ==
  CASE f = "pet" -> T("Error: Pet data is required")
    [] f = "pet_id" -> T("Error: Pet ID is required")
    [] f = "order" -> T("Error: Order data is required")
    [] f = "order_id" -> T("Error: Order ID is required")
    [] f = "user" -> T("Error: User data is required")
    [] f = "users" -> T("Error: Users data is required")
    [] f = "username" -> T("Error: Username is required")

RequiredOf(name) == ToolDef(name).required

Absent(arguments, f) == ~HasKey(arguments, T(f))

\* the first field of the tool's required list that is absent or empty
FirstRejected(name, arguments) ==
  LET req == RequiredOf(name)
      i == CHOOSE i \in 1..Len(req) :
             /\ ~Truthy(Get(arguments, T(req[i])))
             /\ \A j \in 1..(i - 1) : Truthy(Get(arguments, T(req[j])))
  IN req[i]

\* C2 as stated: whenever a required field is absent, the handler returns
\* the error text that names that very field and sends no HTTP request.
C2_AbsentFieldNamed ==
  InHandler =>
    \A f \in Range(RequiredOf(cur.name)) :
      Absent(cur.arguments, f) =>
        /\ pc = "returned"
        /\ result.content = <<RequiredText(f)>>
        /\ sent = <<>>

\* C2 amended: whenever a required field is absent, the handler returns an
\* error text and sends no HTTP request; the text names the first field of
\* the required list that is absent or empty, which is the absent field
\* itself unless an earlier required field is absent or empty too.
C2_AbsentFieldRejected ==
  InHandler =>
    \A f \in Range(RequiredOf(cur.name)) :
      Absent(cur.arguments, f) =>
        /\ pc = "returned"
        /\ step.kind = "return"
        /\ result.content = <<RequiredText(FirstRejected(cur.name, cur.arguments))>>
        /\ sent = <<>>
        /\ outcome.kind = "none"

C2_Witness ==
  /\ InHandler
  /\ cur.name = "update_user"
  /\ Absent(cur.arguments, "user")
  /\ HasKey(cur.arguments, T("username"))
  /\ result.content = <<RequiredText("user")>>
  /\ sent = <<>>

\* C3 as stated: when every required field is present in the arguments, the
\* handler passes validation and issues the HTTP request.
C3_PresentFieldAccepted ==
  (InHandler /\ \A f \in Range(RequiredOf(cur.name)) : ~Absent(cur.arguments, f)) =>
    /\ step.kind = "request"
    /\ Len(sent) = 1

\* C4: after a status below 400 with a non-empty body that is valid JSON,
\* make_api_request has returned the parsed body and the tool result is the
\* handler's success text around a rendering that reads back as that value.
C4_JsonBodyCarried ==
  (Answered /\ outcome.status < 400 /\ outcome.body # <<>>
     /\ Loads(outcome.body).ok) =>
    /\ ~api.raised
    /\ api.value = Loads(outcome.body).v
    /\ CarriesValue(result, Loads(outcome.body).v)

C4_Witness ==
  /\ Answered
  /\ outcome.status = 200
  /\ Loads(outcome.body).ok
  /\ Loads(outcome.body).v.t = "arr"
  /\ Len(Loads(outcome.body).v.kids) = 2
  /\ CarriesValue(result, Loads(outcome.body).v)

\* C5 as stated: a tools/call request for a name that handle_list_tools
\* does not list is answered with an unknown-tool error that names it, and
\* no HTTP request is sent.
C5_UnknownToolRejected ==
  (InRequest /\ cur.name \notin ToolNames) =>
    /\ pc = "returned"
    /\ result.isError
    /\ result.content = << <<"Unknown tool: ", cur.name>> >>
    /\ sent = <<>>

\* the verb the tool is documented to use
ToolVerb(name) ==
  CASE name \in {"add_pet", "update_pet_with_form", "upload_pet_image",
                 "place_order", "create_user", "create_users_with_list"} -> "POST"
    [] name \in {"update_pet", "update_user"} -> "PUT"
    [] name \in {"delete_pet", "delete_order", "delete_user"} -> "DELETE"
    [] OTHER -> "GET"

\* the path the tool is documented to use, its template filled in
ToolPath(name, arguments) ==
  LET pet_id == Format(Get(arguments, T("pet_id")))
      order_id == Format(Get(arguments, T("order_id")))
      username == Format(Get(arguments, T("username")))
  IN CASE name \in {"add_pet", "update_pet"} -> <<"/", "pet">>
       [] name \in {"get_pet_by_id", "update_pet_with_form", "delete_pet"} ->
            <<"/", "pet", "/">> \o pet_id
       [] name = "find_pets_by_status" -> <<"/", "pet", "/", "findByStatus">>
       [] name = "find_pets_by_tags" -> <<"/", "pet", "/", "findByTags">>
       [] name = "upload_pet_image" ->
            <<"/", "pet", "/">> \o pet_id \o <<"/", "uploadImage">>
       [] name = "get_inventory" -> <<"/", "store", "/", "inventory">>
       [] name = "place_order" -> <<"/", "store", "/", "order">>
       [] name \in {"get_order_by_id", "delete_order"} ->
            <<"/", "store", "/", "order", "/">> \o order_id
       [] name = "create_user" -> <<"/", "user">>
       [] name = "create_users_with_list" -> <<"/", "user", "/", "createWithList">>
       [] name = "login_user" -> <<"/", "user", "/", "login">>
       [] name = "logout_user" -> <<"/", "user", "/", "logout">>
       [] name \in {"get_user_by_name", "update_user", "delete_user"} ->
            <<"/", "user", "/">> \o username

\* every required field of the tool is given a non-empty value
WellFormed(name, arguments) ==
  \A f \in Range(RequiredOf(name)) : Truthy(Get(arguments, T(f)))

\* C6 as stated: a tools/call request for a registered name with well-formed
\* arguments sends one HTTP request, with that name's verb and URL.
C6_NameRunsOwnMapping ==
  (InRequest /\ cur.name \in ToolNames /\ WellFormed(cur.name, cur.arguments)) =>
    /\ Len(sent) = 1
    /\ sent[1].method = ToolVerb(cur.name)
    /\ sent[1].url = BASE_URL \o ToolPath(cur.name, cur.arguments)

\* the body is a JSON object with a "message" member
HasMessage(body) ==
  /\ Loads(body).ok
  /\ Loads(body).v.t = "obj"
  /\ HasKey(Loads(body).v, T("message"))

\* C7: after a status of 400 or more with a JSON object body that has a
\* "message" member, the PetstoreAPIError raised carries the HTTP status as
\* its code and the value of that member as its message.
C7_ErrorMessageField ==
  (Answered /\ outcome.status >= 400 /\ HasMessage(outcome.body)) =>
    /\ api.raised
    /\ api.status_code = outcome.status
    /\ api.message = Get(Loads(outcome.body).v, T("message"))

C7_Witness ==
  /\ Answered
  /\ outcome.status = 404
  /\ HasMessage(outcome.body)
  /\ api.status_code = 404
  /\ api.message = StrV(<<"Pet", Space, "not", Space, "found">>)

\* C8 as stated: after a status of 400 or more with a body that has no
\* "message" member to read, the message of the error is the raw body text
\* when the body is not empty, and "HTTP <status>" only when it is empty.
C8_RawBodyFallback ==
  (Answered /\ outcome.status >= 400 /\ ~HasMessage(outcome.body)) =>
    /\ api.raised
    /\ api.status_code = outcome.status
    /\ api.message = IF outcome.body # <<>>
                     THEN StrV(outcome.body)
                     ELSE StrV(<<"HTTP", Space>> \o IntText(outcome.status))

\* C9: after a status below 400 with an empty body, make_api_request has
\* returned the completion marker without calling response.json(), nothing
\* was raised, and the tool result is the handler's success text around it.
C9_EmptyBodyMarker ==
  (Answered /\ outcome.status < 400 /\ outcome.body = <<>>) =>
    /\ ~api.raised
    /\ ~api.parsed
    /\ api.value = ObjV(<<T("status"), T("message")>>,
                        <<StrV(T("success")),
                          StrV(T("Operation completed successfully"))>>)
    /\ CarriesValue(result, api.value)

C9_Witness ==
  /\ Answered
  /\ outcome.status = 200
  /\ outcome.body = <<>>
  /\ ~api.parsed
  /\ Get(api.value, T("status")) = StrV(T("success"))

\* the body is not empty and is not valid JSON
TextBody(body) == body # <<>> /\ ~Loads(body).ok

\* C10 as stated: after a status below 400 with a non-empty body that is not
\* valid JSON, the value make_api_request returns is the body text itself.
C10_TextBodyItself ==
  (Answered /\ outcome.status < 400 /\ TextBody(outcome.body)) =>
    /\ ~api.raised
    /\ api.value = StrV(outcome.body)

\* C10 amended: the value returned is the object {"status": "success",
\* "data": <body text>}; the body text is its "data" member, unaltered, and
\* the tool result carries that object.
C10_TextBodyWrapped ==
  (Answered /\ outcome.status < 400 /\ TextBody(outcome.body)) =>
    /\ ~api.raised
    /\ api.value = ObjV(<<T("status"), T("data")>>,
                        <<StrV(T("success")), StrV(outcome.body)>>)
    /\ CarriesValue(result, api.value)

C10_Witness ==
  /\ Answered
  /\ outcome.status = 200
  /\ outcome.body = <<"say", Space, Quote, "hi", Quote, Newline>>
  /\ Get(api.value, T("data")) = StrV(outcome.body)


EndsWith(text, suffix) ==
  /\ Len(text) >= Len(suffix)
  /\ SubSeq(text, Len(text) - Len(suffix) + 1, Len(text)) = suffix

\* C11: after a transport error of the HTTP request the handler has
\* returned, whatever the tool: the PetstoreAPIError raised has code 0 and a
\* message that contains the text of the transport error, and the tool
\* result is the handler's error text around that message.
C11_TransportFailure ==
  (InHandler /\ outcome.kind = "transport") =>
    /\ pc = "returned"
    /\ api.raised
    /\ api.status_code = 0
    /\ api.message.t = "str"
    /\ EndsWith(api.message.s, outcome.body)
    /\ Len(sent) = 1
    /\ result.content = <<step.errText \o api.message.s>>
    /\ EndsWith(result.content[1], outcome.body)

C11_Witness ==
  /\ InHandler
  /\ cur.name = "delete_pet"
  /\ outcome.kind = "transport"
  /\ outcome.body = T("Connection refused")
  /\ api.status_code = 0
  /\ result.content = <<<<"Error deleting pet: ", "Request failed: ",
                          "Connection refused">>>>

\* C12 as stated: whatever the HTTP client does with the request, an
\* exception it raises included, the handler returns a result and no
\* exception reaches the caller of the handler.
C12_NoExceptionEscapes ==
  InHandler => pc # "raised"


\* no two positions of the sequence hold the same element
Distinct(seq) == \A i, j \in 1..Len(seq) : i # j => seq[i] # seq[j]

\* a tool list as the registry promises it: 19 definitions, names pairwise
\* distinct, field names unique within each definition
WellFormedList(tools) ==
  /\ Len(tools) = 19
  /\ Distinct([i \in 1..Len(tools) |-> tools[i].name])
  /\ \A i \in 1..Len(tools) : Distinct(tools[i].properties)

\* C13: every tools/list request, in any state and after any tool
\* invocations, is answered with the same sequence of 19 tool definitions
\* as the first one, with pairwise distinct names and unique field names;
\* answering it sends no HTTP request and leaves every invocation as it is.
C13_StaticRegistry ==
  /\ [](\A i \in 1..Len(listed) :
          listed[i] = listed[1] /\ WellFormedList(listed[i]))
  /\ [][listed' # listed => UNCHANGED call]_vars

C13_Witness ==
  /\ Len(listed) = 2
  /\ listed[2] = listed[1]
  /\ Answered
  /\ outcome.status = 500


\* the request that a call of the tool with these arguments is to send
OwnRequest(name, arguments) ==
  [method |-> ToolVerb(name), url |-> BASE_URL \o ToolPath(name, arguments)]

\* the text that comes back to a call of the tool with these arguments when
\* the stub backend answers its request with the status
OwnText(name, arguments, status) ==
  LET own == OwnRequest(name, arguments)
      prefixes == RunHandler(name, arguments)
      echo == StrV(<<own.method, Space>> \o own.url)
  IN IF status < 400
     THEN prefixes.okText \o Dumps(ObjV(<<T("message")>>, <<echo>>), 0)
     ELSE prefixes.errText \o echo.s

\* task i has sent the request of its own arguments, and what it returned
\* comes from the answer to that request
Uncontaminated(i) ==
  LET f == tasks[i] IN
  /\ f.pc = "awaiting" =>
       /\ Len(f.sent) = 1
       /\ f.sent[1].method = OwnRequest(f.cur.name, f.cur.arguments).method
       /\ f.sent[1].url = OwnRequest(f.cur.name, f.cur.arguments).url
  /\ (f.pc = "returned" /\ f.outcome.kind = "response") =>
       /\ Len(f.sent) = 1
       /\ f.sent[1].url = OwnRequest(f.cur.name, f.cur.arguments).url
       /\ f.result.content =
            <<OwnText(f.cur.name, f.cur.arguments, f.outcome.status)>>
  /\ (f.pc = "returned" /\ f.outcome.kind = "transport") =>
       StartsWith(f.result.content[1],
                  RunHandler(f.cur.name, f.cur.arguments).errText)

\* C14: in every interleaving of two concurrent handler calls, each call's
\* HTTP request is the one of its own tool and arguments and each call's
\* result is built from the answer to its own request; every call that
\* awaits its request returns.
C14_NoCrossContamination ==
  /\ [](\A i \in Slots : Uncontaminated(i))
  /\ \A i \in Slots : (tasks[i].pc = "awaiting") ~> (tasks[i].pc = "returned")

C14_Witness ==
  /\ tasks[1].pc = "awaiting"
  /\ tasks[1].cur.name = "get_pet_by_id"
  /\ tasks[2].pc = "returned"
  /\ tasks[2].cur.name = "get_user_by_name"
  /\ tasks[2].outcome.kind = "response"
  /\ tasks[2].outcome.status = 200
  /\ Loads(Payload(tasks[2].result.content[1], T("User details: "))).ok


(***************************************************************************)
(* The agent at work.  Every execute_task call is a coroutine of one event *)
(* loop; all of them use the agent's one MCPTransport.                     *)
(***************************************************************************)
besidesClient == <<call, listed, tasks, ref, got, wildfire>>

\* execute_task is called and enters the context of connect(): the new
\* session is assigned to transport.session, then initialize() is awaited
ExecuteTask(i, task_type, kwargs) ==
  /\ running[i].pc = "idle"
  /\ connections.opened < MaxConnections
  /\ LET c == connect(petstore_agent.transport, connections) IN
     /\ petstore_agent' = [petstore_agent EXCEPT !.transport = c.transport]
     /\ connections' = c.conns
     /\ running' = [running EXCEPT ![i] =
                      [IdleRun EXCEPT !.pc = "connected", !.task_type = task_type,
                                      !.kwargs = kwargs, !.own = c.session]]
  /\ UNCHANGED <<outside, besidesClient>>

\* initialize() or list_tools() raises: connect() logs and raises again
ConnectFails(i) ==
  /\ running[i].pc = "connected"
  /\ LET x == connect_exit(petstore_agent.transport, connections, running[i].own) IN
     /\ petstore_agent' = [petstore_agent EXCEPT !.transport = x.transport]
     /\ connections' = x.conns
  /\ running' = [running EXCEPT ![i].pc = "raised"]
  /\ UNCHANGED <<outside, besidesClient>>

\* initialize() and list_tools() are answered; the task runs up to its
\* await of self.session.call_tool, or raises and leaves the context
RunTask(i) ==
  /\ running[i].pc = "connected"
  /\ LET plan == execute_task(petstore_agent, running[i].task_type,
                              running[i].kwargs)
         x == connect_exit(petstore_agent.transport, connections, running[i].own)
     IN IF plan.kind = "raise"
        THEN /\ running' = [running EXCEPT ![i].pc = "raised", ![i].plan = plan]
             /\ petstore_agent' = [petstore_agent EXCEPT !.transport = x.transport]
             /\ connections' = x.conns
        ELSE /\ running' = [running EXCEPT ![i].pc = "calling", ![i].plan = plan,
                                           ![i].over = petstore_agent.transport.session]
             /\ UNCHANGED <<petstore_agent, connections>>
  /\ UNCHANGED <<outside, besidesClient>>

\* session.call_tool returns or raises (a closed session can only raise);
\* the task returns its mapping and leaves the context of connect()
CallToolReply(i, reply) ==
  /\ running[i].pc = "calling"
  /\ running[i].over \in connections.closed => reply.kind = "exception"
  /\ LET x == connect_exit(petstore_agent.transport, connections, running[i].own) IN
     /\ petstore_agent' = [petstore_agent EXCEPT !.transport = x.transport]
     /\ connections' = x.conns
  /\ running' = [running EXCEPT
                   ![i].pc = "returned",
                   ![i].reply = reply,
                   ![i].result = task_return(petstore_agent, running[i].plan,
                                             transport_call_tool_return(reply))]
  /\ UNCHANGED <<outside, besidesClient>>

\* the caller has the outcome of the task
TaskDone(i) ==
  /\ running[i].pc \in {"returned", "raised"}
  /\ running' = [running EXCEPT ![i] = IdleRun]
  /\ UNCHANGED <<petstore_agent, connections, outside, besidesClient>>

\* transport.call_tool is called while no execute_task is running
CallOutside(reply) ==
  /\ \A i \in {1, 2} : running[i].pc = "idle"
  /\ LET session == petstore_agent.transport.session IN
     IF session = 0
     THEN outside' = [kind |-> "RuntimeError", over |-> 0, result |-> NoneV]
     ELSE /\ session \in connections.closed => reply.kind = "exception"
          /\ outside' = [kind |-> "return", over |-> session,
                         result |-> transport_call_tool_return(reply)]
  /\ UNCHANGED <<petstore_agent, connections, running, besidesClient>>

\* PetstoreAgent(config): a new agent with a new transport
NewAgent(config) ==
  /\ \A i \in {1, 2} : running[i].pc = "idle"
  /\ petstore_agent' = PetstoreAgent(config)
  /\ outside' = NoOutside
  /\ UNCHANGED <<connections, running, besidesClient>>

NextAgent ==
  \/ \E i \in {1, 2} : \E t \in AgentTasks : ExecuteTask(i, t[1], t[2])
  \/ \E i \in {1, 2} : ConnectFails(i)
  \/ \E i \in {1, 2} : RunTask(i)
  \/ \E i \in {1, 2} : \E r \in Replies : CallToolReply(i, r)
  \/ \E i \in {1, 2} : TaskDone(i)
  \/ \E r \in Replies : CallOutside(r)
  \/ \E c \in Configs : NewAgent(c)

SpecAgent == Init /\ [][NextAgent]_vars


\* no execute_task coroutine is inside the context of connect()
NoneConnected == \A i \in {1, 2} : running[i].pc \in {"idle", "returned", "raised"}

\* C15: whatever the interleaving of two execute_task calls on one agent,
\* the tool call of a task goes over the session that this task opened, that
\* session is open while the call is awaited, and the task returns the
\* outcome of its own call.
C15_OwnSession ==
  \A i \in {1, 2} :
    /\ running[i].pc \in {"calling", "returned"} =>
         running[i].over = running[i].own
    /\ running[i].pc = "calling" => running[i].over \notin connections.closed
    /\ running[i].pc = "returned" =>
         running[i].result = task_return(petstore_agent, running[i].plan,
                                transport_call_tool_return(running[i].reply))

\* C16: once the context of connect() has been left the transport holds no
\* session, a call_tool made outside any connection raises RuntimeError and
\* no call goes over a closed session.
C16_SessionDestroyedOnExit ==
  /\ NoneConnected => petstore_agent.transport.session = 0
  /\ outside.kind \in {"none", "RuntimeError"}
  /\ outside.over \notin connections.closed

\* C17 as stated: all the execute_task calls of one agent travel over one
\* connection, opened a single time.
C17_OpenedOnce == connections.opened <= 1

\* C17 as amended: every execute_task call opens a connection of its own
\* to the tool server, and that connection is closed when the task ends.
C17_OpenedPerTask ==
  /\ [][\A i \in {1, 2} :
          running[i].pc = "idle" /\ running'[i].pc # "idle" =>
            /\ connections'.opened = connections.opened + 1
            /\ running'[i].own = connections'.opened
            /\ running'[i].own \notin connections'.closed]_vars
  /\ [](\A i \in {1, 2} :
          /\ running[i].pc \in {"returned", "raised"} =>
               running[i].own \in connections.closed
          /\ running[i].pc \in {"connected", "calling"} =>
               /\ running[i].own \notin connections.closed
               /\ \A j \in {1, 2} \ {i} :
                    running[j].pc # "idle" => running[j].own # running[i].own)

\* the second task of a sequence has returned: it ran on a second connection
C17_Witness ==
  /\ running[1].pc = "returned"
  /\ running[1].own = 2
  /\ running[2].pc = "idle"
  /\ connections = [opened |-> 2, closed |-> {1, 2}]

\* c differs from d in nothing but the retry and caching fields
InertVariant(c, d) ==
  [c EXCEPT !.retry_attempts = d.retry_attempts, !.retry_delay = d.retry_delay,
            !.enable_caching = d.enable_caching, !.cache_ttl = d.cache_ttl] = d

\* C18: an agent whose config differs in nothing but retry_attempts,
\* retry_delay, enable_caching and cache_ttl makes, for the same task, the
\* tool call that this agent made, and returns, for the same answer of
\* session.call_tool, what this agent returned.
C18_InertConfig ==
  \A i \in {1, 2} : \A c \in Configs :
    InertVariant(c, petstore_agent.config) =>
      LET other == PetstoreAgent(c) IN
      /\ other.transport.server_path = petstore_agent.transport.server_path
      /\ running[i].plan # NoPlan =>
           running[i].plan = execute_task(other, running[i].task_type,
                                          running[i].kwargs)
      /\ running[i].pc = "returned" =>
           running[i].result = task_return(other, running[i].plan,
                                  transport_call_tool_return(running[i].reply))

\* an agent with caching disabled has returned the outcome of a failed call
C18_Witness ==
  /\ petstore_agent.config.enable_caching = FALSE
  /\ petstore_agent.config.cache_ttl # ClientConfig_default.cache_ttl
  /\ running[1].pc = "returned"
  /\ running[1].plan.name = "delete_pet"
  /\ running[1].reply.kind = "exception"
  /\ HasKey(Get(running[1].result, T("result")), T("error"))


(***************************************************************************)
(* Histories.  An invocation that has ended may be remembered as it was;   *)
(* the invocations after it are then compared with it.                     *)
(***************************************************************************)
Remember ==
  /\ pc \in {"returned", "raised"}
  /\ ref' = [kind |-> pc, cur |-> cur, sent |-> sent, outcome |-> outcome,
             result |-> result]
  /\ UNCHANGED <<call, listed, tasks, client, got, wildfire>>

NextHist ==
  \/ \E h \in Range(Handlers) : \E a \in HistArgumentsOf(h) : CallHandler(h, a)
  \/ \E s \in HistStatuses : \E b \in HistBodies : HttpResponse(s, b)
  \/ \E e \in TransportErrors : HttpRequestError(e)
  \/ HttpOtherError
  \/ Complete
  \/ Remember

SpecHist == Init /\ [][NextHist]_vars


SameRequest ==
  /\ pc \in {"awaiting", "returned", "raised"}
  /\ ref.kind # "none"
  /\ ref.cur.name # cur.name
  /\ Len(sent) = 1
  /\ Len(ref.sent) = 1
  /\ sent[1].method = ref.sent[1].method
  /\ sent[1].url = ref.sent[1].url

PathField(name) ==
  CASE name \in {"get_pet_by_id", "update_pet_with_form", "delete_pet",
                 "upload_pet_image"} -> "pet_id"
    [] name \in {"get_order_by_id", "delete_order"} -> "order_id"
    [] name \in {"get_user_by_name", "update_user", "delete_user"} -> "username"
    [] OTHER -> ""

\* the path segments that endpoints have in the place where another endpoint
\* with the same verb has an argument
FixedSegments == {T("findByStatus"), T("findByTags"), T("login"), T("logout")}

\* the invocation puts into its path a text that is such a segment or has a "/"
SegmentAsArgument(c) ==
  /\ PathField(c.name) # ""
  /\ LET text == Format(Get(c.arguments, T(PathField(c.name)))) IN
       \/ text \in FixedSegments
       \/ \E i \in 1..Len(text) : text[i] = "/"

Placeholders ==
  ObjV(<<T("pet_id"), T("order_id"), T("username")>>,
       <<StrV(T("{pet_id}")), StrV(T("{order_id}")), StrV(T("{username}"))>>)

ArgumentKeys ==
  << "pet_id", "order_id", "username", "password", "status", "tags", "name",
     "api_key", "additional_metadata", "pet", "order", "user", "users", "extra" >>

\* the value given for key k: of the declared type where that is a mapping
\* or a list, a string otherwise
Mark(k) ==
  CASE k \in {"pet", "order", "user"} -> ObjV(<<T("name")>>, <<StrV(<<k, "!">>)>>)
    [] k = "users" -> ArrV(<<ObjV(<<T("name")>>, <<StrV(<<k, "!">>)>>)>>)
    [] k = "tags" -> ArrV(<<StrV(<<k, "!">>)>>)
    [] OTHER -> StrV(<<k, "!">>)

RECURSIVE MarkedFrom(_, _)
MarkedFrom(given, i) ==
  IF i > Len(ArgumentKeys) THEN EmptyDict
  ELSE LET rest == MarkedFrom(given, i + 1) IN
    IF ArgumentKeys[i] \notin given THEN rest
    ELSE ObjV(<<T(ArgumentKeys[i])>> \o rest.keys,
              <<Mark(ArgumentKeys[i])>> \o rest.kids)

\* the argument mappings tried for a tool: any of its schema's properties,
\* alone or together with every key that is not in its schema
FrameArgumentsOf(name) ==
  LET own == Range(ToolDef(name).properties)
      foreign == Range(ArgumentKeys) \ own
  IN {MarkedFrom(given, 1) : given \in SUBSET own} \cup
     {MarkedFrom(given \cup foreign, 1) : given \in SUBSET own}

NextFrame ==
  \/ \E h \in Range(Handlers) : \E a \in FrameArgumentsOf(h) : CallHandler(h, a)
  \/ \E s \in HistStatuses : \E b \in HistBodies : HttpResponse(s, b)
  \/ \E e \in TransportErrors : HttpRequestError(e)
  \/ Complete

SpecFrame == Init /\ [][NextFrame]_vars

\* the value of key k is somewhere in value v, or in text
RECURSIVE Carries(_, _)
Carries(v, k) ==
  \/ \E i \in 1..(Len(v.s) - 1) : v.s[i] = k /\ v.s[i + 1] = "!"
  \/ \E i \in 1..Len(v.kids) : Carries(v.kids[i], k)

TextCarries(text, k) == Carries(StrV(text), k)

\* the place the tool's table gives to key k: "path", "json", or a query
\* parameter or header of a name; "nowhere" for a key outside the table
Place(name, k) ==
  CASE k = "pet_id" /\ name \in {"get_pet_by_id", "update_pet_with_form",
                                 "delete_pet", "upload_pet_image"} -> <<"path", "">>
    [] k = "order_id" /\ name \in {"get_order_by_id", "delete_order"} -> <<"path", "">>
    [] k = "username" /\ name \in {"get_user_by_name", "update_user",
                                   "delete_user"} -> <<"path", "">>
    [] k = "username" /\ name = "login_user" -> <<"query", "username">>
    [] k = "password" /\ name = "login_user" -> <<"query", "password">>
    [] k = "status" /\ name \in {"find_pets_by_status", "update_pet_with_form"} ->
         <<"query", "status">>
    [] k = "tags" /\ name = "find_pets_by_tags" -> <<"query", "tags">>
    [] k = "name" /\ name = "update_pet_with_form" -> <<"query", "name">>
    [] k = "additional_metadata" /\ name = "upload_pet_image" ->
         <<"query", "additionalMetadata">>
    [] k = "api_key" /\ name = "delete_pet" -> <<"header", "api_key">>
    [] k = "pet" /\ name \in {"add_pet", "update_pet"} -> <<"json", "">>
    [] k = "order" /\ name = "place_order" -> <<"json", "">>
    [] k = "user" /\ name \in {"create_user", "update_user"} -> <<"json", "">>
    [] k = "users" /\ name = "create_users_with_list" -> <<"json", "">>
    [] OTHER -> <<"nowhere", "">>

\* the value of key k is in the request only in the place of its tool's table
InItsPlace(request, name, k) ==
  /\ TextCarries(request.url, k) => Place(name, k) = <<"path", "">>
  /\ Carries(request.json, k) =>
       Place(name, k) = <<"json", "">> /\ request.json = Mark(k)
  /\ \A i \in 1..Len(request.params.kids) :
       Carries(request.params.kids[i], k) =>
         /\ Place(name, k) = <<"query", request.params.keys[i][1]>>
         /\ request.params.kids[i] = Mark(k)
  /\ \A i \in 1..Len(request.headers.kids) :
       Carries(request.headers.kids[i], k) =>
         /\ Place(name, k) = <<"header", request.headers.keys[i][1]>>
         /\ request.headers.kids[i] = Mark(k)
  /\ \A i \in 1..Len(request.params.keys) : ~TextCarries(request.params.keys[i], k)
  /\ \A i \in 1..Len(request.headers.keys) : ~TextCarries(request.headers.keys[i], k)

\* every query parameter and header of the request is that of a supplied key
OnlySupplied(request, name, arguments) ==
  /\ \A i \in 1..Len(request.params.keys) :
       \E k \in Range(ArgumentKeys) :
         /\ HasKey(arguments, T(k))
         /\ Place(name, k) = <<"query", request.params.keys[i][1]>>
  /\ \A i \in 1..Len(request.headers.keys) :
       \E k \in Range(ArgumentKeys) :
         /\ HasKey(arguments, T(k))
         /\ Place(name, k) = <<"header", request.headers.keys[i][1]>>

\* C21 as stated: the value of every argument key is in the request only in
\* the place its tool's table gives it, a key outside the table is nowhere
\* in the request, and a query parameter or header is sent only when its
\* key was supplied.
C21_PlacedOnlyWhenSupplied ==
  (InHandler /\ Len(sent) = 1) =>
    /\ \A k \in Range(ArgumentKeys) : InItsPlace(sent[1], cur.name, k)
    /\ OnlySupplied(sent[1], cur.name, cur.arguments)

\* find_pets_by_status and find_pets_by_tags send the default of a field that
\* was not supplied
DefaultSent(request, name, arguments) ==
  \/ /\ name = "find_pets_by_status"
     /\ ~HasKey(arguments, T("status"))
     /\ request.params = ObjV(<<T("status")>>, <<StrV(T("available"))>>)
  \/ /\ name = "find_pets_by_tags"
     /\ ~HasKey(arguments, T("tags"))
     /\ request.params = ObjV(<<T("tags")>>, <<ArrV(<<>>)>>)

\* C21 as amended: as stated, except that find_pets_by_status sends
\* status = "available" and find_pets_by_tags sends an empty list of tags
\* when the field is not supplied.
C21_PlacedByTable ==
  (InHandler /\ Len(sent) = 1) =>
    /\ \A k \in Range(ArgumentKeys) : InItsPlace(sent[1], cur.name, k)
    /\ \/ OnlySupplied(sent[1], cur.name, cur.arguments)
       \/ DefaultSent(sent[1], cur.name, cur.arguments)

\* delete_pet was given every key there is: its request has the pet_id in
\* the path, the api_key as a header and nothing else
C21_Witness ==
  /\ InHandler
  /\ cur.name = "delete_pet"
  /\ \A i \in 1..Len(ArgumentKeys) : HasKey(cur.arguments, T(ArgumentKeys[i]))
  /\ Len(sent) = 1
  /\ sent[1].headers = ObjV(<<T("api_key")>>, <<Mark("api_key")>>)
  /\ sent[1].params = NoneV
  /\ sent[1].json = NoneV
  /\ TextCarries(sent[1].url, "pet_id")


(***************************************************************************)
(* The callers of the tool channel.  The CallToolResult of the invocation  *)
(* travels back over the session, and MCPTransport.call_tool and           *)
(* PetstoreClient._call_tool turn it into what they return.                *)
(***************************************************************************)
\* session.call_tool returns the result of the invocation
ClientReturn ==
  /\ pc = "returned"
  /\ pc' = "delivered"
  /\ got' = Got(ToolReply([i \in 1..Len(result.content) |->
                             TextContent(result.content[i])]))
  /\ UNCHANGED <<cur, step, sent, outcome, api, result>>
  /\ UNCHANGED <<listed, tasks, ref, client, wildfire>>

\* session.call_tool raises, or returns what another server would answer
ChannelAnswers(name, arguments, reply) ==
  /\ pc = "idle"
  /\ pc' = "delivered"
  /\ cur' = [entry |-> "channel", name |-> name, arguments |-> arguments]
  /\ got' = Got(reply)
  /\ UNCHANGED <<step, sent, outcome, api, result>>
  /\ UNCHANGED <<listed, tasks, ref, client, wildfire>>

\* the caller has its value; nothing of the call is kept
ClientDone ==
  /\ pc = "delivered"
  /\ pc' = "idle"
  /\ cur' = NoCall
  /\ step' = Return(<<>>)
  /\ sent' = <<>>
  /\ outcome' = NoOutcome
  /\ api' = NoApi
  /\ result' = NoResult
  /\ got' = NotGot
  /\ UNCHANGED <<listed, tasks, ref, client, wildfire>>

NextClient ==
  \/ \E h \in Range(Handlers) : \E a \in HistArgumentsOf(h) : CallHandler(h, a)
  \/ \E s \in HistStatuses : \E b \in Bodies : HttpResponse(s, b)
  \/ \E e \in TransportErrors : HttpRequestError(e)
  \/ \E n \in ToolNames : \E a \in HistArgumentsOf(n) : CallToolRequest(n, a)
  \/ \E n \in ToolNames : \E r \in ChannelReplies : ChannelAnswers(n, EmptyDict, r)
  \/ ClientReturn
  \/ ClientDone

SpecClient == Init /\ [][NextClient]_vars


\* the caller has the value for a handler's result after a backend response
Delivered == pc = "delivered" /\ cur.entry = "handler" /\ outcome.kind = "response"

\* C22: when the backend answers with success and a JSON object or array,
\* the PetstoreClient method returns that value as structured data;
\* search_available_pets returns the list the backend gave, and the count of
\* get_store_summary is the length of that list.
C22_RoundTrip ==
  (Delivered /\ outcome.status < 400 /\ Loads(outcome.body).ok
     /\ Loads(outcome.body).v.t \in {"obj", "arr"}) =>
    /\ got.client = Loads(outcome.body).v
    /\ (cur.name \in {"find_pets_by_status", "find_pets_by_tags"}
          /\ Loads(outcome.body).v.t = "arr") =>
         /\ got.pets = Loads(outcome.body).v
         /\ got.count = Len(Loads(outcome.body).v.kids)


\* the three shapes of the value of MCPTransport.call_tool
TransportShape(v, reply) ==
  \/ /\ reply.kind = "result" /\ Len(reply.content) > 0
     /\ reply.content[1].type = "text"
     /\ v = ObjV(<<T("response")>>, <<StrV(reply.content[1].text)>>)
  \/ /\ reply.kind = "result"
     /\ Len(reply.content) = 0 \/ reply.content[1].type # "text"
     /\ v = ObjV(<<T("status")>>, <<StrV(T("success"))>>)
  \/ /\ reply.kind = "exception"
     /\ v = ObjV(<<T("error")>>, <<StrV(reply.text)>>)

\* the three shapes of the value of PetstoreClient._call_tool
ClientShape(v, reply) ==
  \/ /\ reply.kind = "result" /\ Len(reply.content) > 0
     /\ reply.content[1].type = "text"
     /\ \/ v = ObjV(<<T("message")>>, <<StrV(reply.content[1].text)>>)
        \/ /\ StripLeft(reply.content[1].text) # <<>>
           /\ StripLeft(reply.content[1].text)[1] \in {"{", "["}
           /\ \E i \in 1..Len(reply.content[1].text) :
                LET json == Loads(SubSeq(reply.content[1].text, i,
                                         Len(reply.content[1].text)))
                IN json.ok /\ v = json.v
  \/ /\ reply.kind = "result"
     /\ Len(reply.content) = 0 \/ reply.content[1].type # "text"
     /\ v = ObjV(<<T("status")>>, <<StrV(T("success"))>>)
  \/ /\ reply.kind = "exception"
     /\ v = ObjV(<<T("error")>>, <<StrV(reply.text)>>)

\* the server refused the arguments, or the backend or the transport failed
ServerSideFailure ==
  /\ cur.entry = "handler"
  /\ step.kind = "return" \/ api.raised

\* C23: with a session open, MCPTransport.call_tool and
\* PetstoreClient._call_tool return a value of one of their three shapes,
\* whatever session.call_tool returns or raises; a validation failure, a
\* backend error and a transport error of the server arrive in the shape of
\* a success, as "response" or "message" text, never as "error".
C23_ThreeShapes ==
  pc = "delivered" =>
    /\ got.kind = "got"
    /\ TransportShape(got.transport, got.reply)
    /\ ClientShape(got.client, got.reply)
    /\ ServerSideFailure =>
         /\ got.transport.keys = <<T("response")>>
         /\ got.client.keys = <<T("message")>>
         /\ got.client.kids = got.transport.kids

\* add_pet refused its arguments; both callers were given the refusal as text
C23_Witness ==
  /\ pc = "delivered"
  /\ cur.entry = "handler"
  /\ cur.name = "add_pet"
  /\ step.kind = "return"
  /\ got.transport = ObjV(<<T("response")>>, <<StrV(T("Error: Pet data is required"))>>)
  /\ got.client = ObjV(<<T("message")>>, <<StrV(T("Error: Pet data is required"))>>)


(***************************************************************************)
(* The status code of a PetstoreAPIError                                   *)
(***************************************************************************)
\* make_api_request has come back, by return or by PetstoreAPIError
CameBack == pc = "returned" /\ outcome.kind \in {"response", "transport"}

\* C27: a PetstoreAPIError of make_api_request has status_code 0 exactly when
\* the request failed at transport level; otherwise its status_code is the
\* HTTP status of the response and that status is at least 400; a response
\* below 400 does not raise: 400 is a failure and 399 is a success
C27_StatusCode ==
  CameBack =>
    /\ api.raised =>
          /\ (api.status_code = 0) <=> (outcome.kind = "transport")
          /\ outcome.kind = "response" =>
                api.status_code = outcome.status /\ outcome.status >= 400
    /\ outcome.kind = "transport" => api.raised
    /\ outcome.kind = "response" => (api.raised <=> outcome.status >= 400)

\* both sides of the limit have been answered: here a response with status
\* 400 has raised
C27_Witness ==
  /\ CameBack /\ outcome.kind = "response" /\ outcome.status = 400
  /\ api.raised /\ api.status_code = 400

C27_WitnessBelow ==
  /\ CameBack /\ outcome.kind = "response" /\ outcome.status = 399
  /\ ~api.raised


(***************************************************************************)
(* The registry against the handlers                                       *)
(***************************************************************************)
\* the handler has turned the invocation down before any request
Rejected == step.kind = "return" /\ sent = <<>>

\* C28: the registry and the handlers agree.  The names of handle_list_tools
\* are the 19 handler names and every name of TOOL_PATTERNS is one of them;
\* a handler turns an invocation down whenever a field of the schema's
\* required list is absent, and turns it down only over a field of that
\* list, naming it; find_pets_by_status without a status asks for the
\* default of the schema.
C28_RegistryAgrees ==
  /\ ToolNames = Range(Handlers)
  /\ Cardinality(ToolNames) = 19
  /\ \A p \in DOMAIN TOOL_PATTERNS : Range(TOOL_PATTERNS[p]) \subseteq ToolNames
  /\ InHandler =>
        /\ cur.name \in ToolNames
        /\ (\E f \in Range(RequiredOf(cur.name)) : Absent(cur.arguments, f))
              => Rejected
        /\ Rejected =>
              \E f \in Range(RequiredOf(cur.name)) :
                /\ ~Truthy(Get(cur.arguments, T(f)))
                /\ step.text = RequiredText(f)
        /\ (cur.name = "find_pets_by_status" /\ Absent(cur.arguments, "status")) =>
              /\ Len(sent) = 1
              /\ Get(sent[1].params, T("status")) =
                   schema_default("find_pets_by_status", "status")

\* find_pets_by_tags, which requires nothing, was invoked without arguments
\* and has sent its request
C28_Witness ==
  /\ InHandler
  /\ cur.name = "find_pets_by_tags"
  /\ cur.arguments = EmptyDict
  /\ ~Rejected
  /\ Len(sent) = 1

C28_WitnessDefault ==
  /\ InHandler
  /\ cur.name = "find_pets_by_status"
  /\ Absent(cur.arguments, "status")
  /\ Len(sent) = 1


(***************************************************************************)
(* Tasks that execute_task does not know                                   *)
(***************************************************************************)
KnownActions(task_type) ==
  CASE task_type = "manage_pet" -> {T("add"), T("update"), T("delete")}
    [] task_type = "process_order" -> {T("place"), T("get"), T("cancel")}
    [] task_type = "manage_user" -> {T("create"), T("login"), T("get")}
    [] OTHER -> {}

\* the task type is not known, or it is known and its action is not
UnknownTask(r) ==
  \/ r.task_type \notin {"find_pets", "manage_pet", "process_order", "manage_user"}
  \/ /\ r.task_type \in {"manage_pet", "process_order", "manage_user"}
     /\ HasKey(r.kwargs, T("action"))
     /\ Get(r.kwargs, T("action")).s \notin KnownActions(r.task_type)

\* C29: execute_task with a task type it does not know, or with an action
\* the task type does not know, raises ValueError without a tool call, and
\* the connection it opened is closed when the error reaches the caller;
\* whenever execute_task has returned or raised, by ValueError, by a missing
\* key or otherwise, the connection it opened is closed.
C29_ClosedOnEveryExit ==
  \A i \in {1, 2} :
    /\ running[i].pc \in {"calling", "returned"} => ~UnknownTask(running[i])
    /\ (running[i].pc = "raised" /\ running[i].plan # NoPlan /\ UnknownTask(running[i])) =>
         /\ running[i].plan.type = "ValueError"
         /\ running[i].over = 0
         /\ running[i].reply = NoReply
    /\ running[i].pc \in {"returned", "raised"} =>
         /\ running[i].own \in 1..connections.opened
         /\ running[i].own \in connections.closed

\* manage_user was asked for an action it does not know and has raised
C29_Witness ==
  /\ running[1].pc = "raised"
  /\ running[1].task_type = "manage_user"
  /\ Get(running[1].kwargs, T("action")) = StrV(T("rename"))
  /\ running[1].plan.type = "ValueError"
  /\ running[1].over = 0
  /\ running[1].own \in connections.closed

C29_WitnessMissingKey ==
  /\ running[1].pc = "raised"
  /\ running[1].plan.type = "KeyError"
  /\ running[1].own \in connections.closed


(***************************************************************************)
(* The wildfire rescue operation.  process_wildfire_rescue_operation runs  *)
(* from one await to the next: the model call of the batch analysis, then  *)
(* for each pet the model call of its assessment, the execute_task call    *)
(* that adds it, and the sleep.  rescue.issued counts the tool calls made, *)
(* rescue.added tells for each processed pet whether the backend took it.  *)
(***************************************************************************)
besidesRescue == <<call, listed, tasks, ref, client, got, extracted>>

\* the operation has ended in its except branch
rescue_fails(r, error) ==
  [r EXCEPT !.pc = "done", !.results = rescue_results_except(r.results, error)]

\* variant: a pet that fails ends the operation
rescue_pet_fails_abort(r, error) ==
  [r EXCEPT !.pc = "done", !.results = rescue_results_except(r.results, error)]

\* add_rescued_pet_to_store has ended in its except branch; its result is
\* appended and counted, and the loop sleeps
rescue_pet_fails(r, error) ==
  [r EXCEPT !.pc = "sleeping",
            !.results = record_pet_result(r.results,
                          add_rescued_pet_except(error, r.pets.kids[r.pos])),
            !.added = Append(@, FALSE)]

\* the for loop at the pet of index r.pos, up to the next await
rescue_loop(r) ==
  IF r.pets.t # "arr"
  THEN rescue_fails(r, <<"'NoneType' object is not iterable">>)
  ELSE IF r.pos > Len(r.pets.kids)
  THEN [r EXCEPT !.pc = "done",
                 !.results = rescue_results_completed(r.results, r.pets)]
  ELSE LET pet_data == r.pets.kids[r.pos] IN
    IF pet_data.t # "obj"
    THEN rescue_fails(r, <<"object has no attribute 'get'">>)
    ELSE LET prompt_data == get_prompt("pet_assessment", pet_data) IN
      IF prompt_data.raised
      THEN rescue_pet_fails(r, prompt_data.error)
      ELSE [r EXCEPT !.pc = "assessing"]

\* process_wildfire_rescue_operation(rescue_operation), up to the model call
\* of process_rescue_batch
ProcessRescueOperation(rescue_operation) ==
  /\ rescue.pc = "idle"
  /\ LET r == [NoRescue EXCEPT !.operation = rescue_operation]
         prompt_data == get_prompt("batch_processing", rescue_operation)
     IN rescue' = IF prompt_data.raised
                  THEN rescue_fails(r, prompt_data.error)
                  ELSE [r EXCEPT !.pc = "batch"]
  /\ UNCHANGED besidesRescue

\* the model answers the batch prompt; the loop starts
BatchAnswered(processing_text) ==
  /\ rescue.pc = "batch"
  /\ LET batch_analysis ==
           ObjV(<<T("batch_id"), T("processing_recommendations"), T("pet_count")>>,
                <<Get(rescue.operation, T("incident_id")), StrV(processing_text),
                  GetOr(rescue.operation, T("count"), NumV(T("0")))>>)
         pets == GetOr(rescue.operation, T("rescued_pets"), ArrV(<<>>))
     IN rescue' = rescue_loop([rescue EXCEPT !.results.ai_batch_analysis = batch_analysis,
                                             !.pets = pets, !.pos = 1])
  /\ UNCHANGED besidesRescue

\* invoke_bedrock_model raises during the batch analysis
BatchFails(error) ==
  /\ rescue.pc = "batch"
  /\ rescue' = rescue_fails(rescue, error)
  /\ UNCHANGED besidesRescue

\* the model answers the assessment prompt; the pet details are extracted
\* and execute_task("manage_pet", action="add", **pet_details) is called
AssessAnswered(assessment_text) ==
  /\ rescue.pc = "assessing"
  /\ LET pet_data == rescue.pets.kids[rescue.pos]
         assessment == assess_rescued_pet_return(pet_data, assessment_text)
         details == extract_pet_details(assessment_text, pet_data)
         kwargs == ObjV(<<T("action")>> \o details.value.keys,
                        <<StrV(T("add"))>> \o details.value.kids)
     IN rescue' =
          IF details.raised THEN rescue_pet_fails(rescue, details.error)
          ELSE [rescue EXCEPT !.pc = "adding", !.assessment = assessment,
                              !.pet_details = details.value,
                              !.plan = execute_task(petstore_agent, "manage_pet", kwargs)]
  /\ UNCHANGED besidesRescue

\* invoke_bedrock_model raises during the assessment of a pet
AssessFails(error) ==
  /\ rescue.pc = "assessing"
  /\ rescue' = rescue_pet_fails(rescue, error)
  /\ UNCHANGED besidesRescue

\* what session.call_tool gives for the add_pet call
AddReply(plan, ending) ==
  LET st == add_pet(plan.arguments)
      accepted == handler_result(st, make_api_request_response(200,
                    <<"{", Quote, "id", Quote, ":", "7", "}">>))
      refused == handler_result(st, make_api_request_response(500, <<>>))
  IN CASE ending = "accepted" -> ToolReply(<<TextContent(accepted.content[1])>>)
       [] ending = "refused" -> ToolReply(<<TextContent(refused.content[1])>>)
       [] ending = "channel" ->
            ToolReply(<<TextContent(call_tool(plan.name, plan.arguments).content[1])>>)
       [] ending = "exception" -> ToolException(<<"Connection", Space, "closed">>)

\* execute_task ends: it returns the task's mapping, or connect() raises
AddAnswered(ending) ==
  /\ rescue.pc = "adding"
  /\ rescue' =
       IF ending = "unconnected" \/ rescue.plan.kind # "call"
       THEN rescue_pet_fails(rescue, <<"Connection", Space, "closed">>)
       ELSE LET mcp_result == task_return(petstore_agent, rescue.plan,
                            transport_call_tool_return(AddReply(rescue.plan, ending)))
                pet_result == add_rescued_pet_return(rescue.pet_details,
                                                     rescue.assessment, mcp_result)
            IN [rescue EXCEPT !.pc = "sleeping",
                              !.results = record_pet_result(rescue.results, pet_result),
                              !.issued = @ + 1,
                              !.added = Append(@, ending = "accepted")]
  /\ UNCHANGED besidesRescue

\* asyncio.sleep(0.5) is over; the loop goes on
Wake ==
  /\ rescue.pc = "sleeping"
  /\ rescue' = rescue_loop([rescue EXCEPT !.pos = @ + 1])
  /\ UNCHANGED besidesRescue

\* the caller has the results
RescueReturned ==
  /\ rescue.pc = "done"
  /\ rescue' = NoRescue
  /\ UNCHANGED besidesRescue

NextRescue ==
  \/ \E o \in RescueOperations : ProcessRescueOperation(o)
  \/ \E t \in BatchAnalyses : BatchAnswered(t)
  \/ \E e \in ModelErrors : BatchFails(e)
  \/ \E t \in Assessments : AssessAnswered(t)
  \/ \E e \in ModelErrors : AssessFails(e)
  \/ \E o \in AddOutcomes : AddAnswered(o)
  \/ Wake
  \/ RescueReturned

SpecRescue == Init /\ [][NextRescue]_vars

\* one call of _extract_pet_details_from_ai_response
ExtractPetDetails(ai_response, original_data) ==
  /\ extracted' = [ai_response |-> ai_response, original_data |-> original_data,
                   outcome |-> extract_pet_details(ai_response, original_data)]
  /\ UNCHANGED <<call, listed, tasks, ref, client, got, rescue>>

NextExtract ==
  \E t \in AiResponses : \E p \in {p \in RescuedPets : p.t = "obj"} :
    ExtractPetDetails(t, p)

SpecExtract == Init /\ [][NextExtract]_vars


(***************************************************************************)
(* The results of a rescue operation                                       *)
(***************************************************************************)
Processed == rescue.results.pets_processed

Succeeded(pet_result) == Truthy(Get(pet_result, T("success")))

\* the number of entries of a list of booleans that are true
RECURSIVE CountTrue(_)
CountTrue(bs) ==
  IF bs = <<>> THEN 0
  ELSE (IF Head(bs) THEN 1 ELSE 0) + CountTrue(Tail(bs))

\* C24 as stated: a pet is reported with success = True, and counted as a
\* successful addition, only when the backend took the pet; a pet whose
\* add_pet call ended in an error is reported with success = False and
\* counted as failed.
C24_SuccessMeansAdded ==
  /\ \A i \in 1..Len(Processed) : Succeeded(Processed[i]) <=> rescue.added[i]
  /\ rescue.results.successful_additions = CountTrue(rescue.added)


\* the entry of pets_processed at index i is the result of the pet at index i
OfPet(pet_result, pet_data) ==
  IF Succeeded(pet_result)
  THEN Get(Get(pet_result, T("pet_details")), T("name")) = Get(pet_data, T("name"))
  ELSE Get(pet_result, T("pet_data")) = pet_data

\* C25: at every point of the operation successful_additions plus
\* failed_additions is the length of pets_processed; the pets are handled
\* one at a time in the order of the input: while pet i is assessed or added
\* exactly the pets before it have their results, and entry i of
\* pets_processed is the result of pet i; an operation that completes
\* without an operation-level error has total_pets = the number of
\* rescued_pets = the length of pets_processed.
C25_CountedInOrder ==
  /\ rescue.results.successful_additions + rescue.results.failed_additions
       = Len(Processed)
  /\ rescue.pc \in {"assessing", "adding"} => Len(Processed) = rescue.pos - 1
  /\ rescue.pc = "sleeping" => Len(Processed) = rescue.pos
  /\ \A i \in 1..Len(Processed) : OfPet(Processed[i], rescue.pets.kids[i])
  /\ (rescue.pc = "done" /\ "error" \notin rescue.results.given) =>
       /\ "total_pets" \in rescue.results.given
       /\ rescue.results.total_pets = Len(rescue.pets.kids)
       /\ rescue.results.total_pets = Len(Processed)

\* an operation of two pets has completed: the first was added, the second,
\* which has no notes, failed
C25_Witness ==
  /\ rescue.pc = "done"
  /\ "error" \notin rescue.results.given
  /\ rescue.results.total_pets = 2
  /\ Succeeded(Processed[1]) /\ ~Succeeded(Processed[2])
  /\ rescue.results.successful_additions = 1
  /\ rescue.results.failed_additions = 1


\* the operation is what the signature says: "rescued_pets", when given, is
\* a list of mappings
WellTyped(rescue_operation) ==
  LET pets == GetOr(rescue_operation, T("rescued_pets"), ArrV(<<>>)) IN
  /\ rescue_operation.t = "obj"
  /\ pets.t = "arr"
  /\ \A i \in 1..Len(pets.kids) : pets.kids[i].t = "obj"

\* the operation has ended in its except branch
OperationError == rescue.pc = "done" /\ "error" \in rescue.results.given

\* C26: process_wildfire_rescue_operation never raises and contains
\* failures.  It ends by returning its results with "completed_at"; a pet
\* whose assessment or add raised (model call, prompt formatting, tool call)
\* has a result with success = False, its error and its data, and the pets
\* after it are processed all the same: an operation that ends without
\* "error" has a result for every pet.  It ends with "error" only when the
\* batch analysis failed, and then pets_processed is empty and no tool call
\* has been issued.
C26_FailuresContained ==
  (rescue.pc # "idle" /\ WellTyped(rescue.operation)) =>
    /\ rescue.pc = "done" => "completed_at" \in rescue.results.given
    /\ OperationError =>
         /\ rescue.results.ai_batch_analysis = NoneV
         /\ Processed = <<>>
         /\ rescue.issued = 0
    /\ (rescue.pc = "done" /\ ~OperationError) =>
         Len(Processed) = Len(rescue.pets.kids)
    /\ rescue.pc = "batch" => rescue.issued = 0 /\ Processed = <<>>
    /\ \A i \in 1..Len(Processed) :
         IF Succeeded(Processed[i])
         THEN HasKey(Processed[i], T("mcp_result"))
         ELSE /\ HasKey(Processed[i], T("error"))
              /\ Get(Processed[i], T("pet_data")) = rescue.pets.kids[i]

\* the model call for the first of two pets raised; the pet has its failed
\* result and the second pet was processed and added
C26_Witness ==
  /\ rescue.pc = "done"
  /\ WellTyped(rescue.operation)
  /\ Len(Processed) = 2
  /\ Get(Processed[1], T("success")) = BoolV("false")
  /\ Get(Processed[1], T("error")).s \in ModelErrors
  /\ Succeeded(Processed[2])
  /\ rescue.issued = 1

\* the batch analysis failed at the model call
C26_WitnessBatch ==
  /\ OperationError
  /\ WellTyped(rescue.operation)
  /\ rescue.results.error \in ModelErrors
  /\ Len(GetOr(rescue.operation, T("rescued_pets"), ArrV(<<>>)).kids) = 2
  /\ Processed = <<>>


(***************************************************************************)
(* The pet details taken from an AI response                               *)
(***************************************************************************)
\* the text mentions the phrase, in whatever case
Mentions(ai_response, phrase) == Contains(Lower(ai_response), phrase)

MentionsMedical(ai_response) ==
  \/ Mentions(ai_response, <<"medical", Space, "care">>)
  \/ Mentions(ai_response, <<"treatment">>)

MentionsAdoption(ai_response) ==
  \/ Mentions(ai_response, <<"ready", Space, "for", Space, "adoption">>)
  \/ Mentions(ai_response, <<"available">>)

TagsOf(pet_details) == Get(pet_details, T("tags")).kids

\* C30: for every AI response the status of the pet details is "pending" or
\* "available", both in the registry's enum of pet status: "pending"
\* whenever the text mentions medical care or treatment, whatever else it
\* mentions; "available" when it mentions ready for adoption or available
\* and neither medical care nor treatment; "pending" otherwise.  The three
\* base rescue tags are always there and no two tags have the same id.
C30_StatusFromResponse ==
  (extracted.original_data # NoneV /\ ~extracted.outcome.raised) =>
    LET pet_details == extracted.outcome.value
        status == Get(pet_details, T("status")).s
        tags == TagsOf(pet_details)
    IN /\ status \in {T("pending"), T("available")}
       /\ status \in pet_status_enum
       /\ MentionsMedical(extracted.ai_response) => status = T("pending")
       /\ status = T("available") <=>
            /\ MentionsAdoption(extracted.ai_response)
            /\ ~MentionsMedical(extracted.ai_response)
       /\ Len(tags) >= 3
       /\ tags[1] = Tag(1, T("wildfire_rescue"))
       /\ tags[2] = Tag(2, rescue_operation_id)
       /\ tags[3] = Tag(3, T("needs_assessment"))
       /\ \A i, j \in 1..Len(tags) :
            Get(tags[i], T("id")) = Get(tags[j], T("id")) => i = j

\* a response that mentions both medical care, in capitals, and readiness
\* for adoption: the pet is pending
C30_Witness ==
  /\ extracted.original_data # NoneV
  /\ ~extracted.outcome.raised
  /\ Contains(extracted.ai_response, <<"MEDICAL", Space, "Care">>)
  /\ MentionsAdoption(extracted.ai_response)
  /\ Get(extracted.outcome.value, T("status")) = StrV(T("pending"))
  /\ Len(TagsOf(extracted.outcome.value)) = 4

C30_WitnessAvailable ==
  /\ ~extracted.outcome.raised
  /\ Contains(extracted.ai_response, <<"un", "available">>)
  /\ Get(extracted.outcome.value, T("status")) = StrV(T("available"))

====
